---- MODULE Spec2Model ----
(***************************************************************************)
(* dicomsort: pattern resolution, prefix tree, counting pass and mapping   *)
(* validation (src/dicomsort/core.py, src/dicomsort/mappers.py).           *)
(*                                                                         *)
(* A string is a sequence of one-character strings, so that concatenation, *)
(* length, zero padding and pathlib's normalisation are computed.          *)
(***************************************************************************)
EXTENDS Integers, Sequences, FiniteSets, TLC

VARIABLES
    pattern,             \* DicomPathPattern.elements of the generator
    check_path_lengths,  \* FullPathMapper.check_path_lengths
    paths,               \* the list of input paths handed to map()
    files,               \* per input path: is it DICOM, and its dataset
    mapped,              \* StraightPathMapping.data: dict path -> TentativePath
    nodes,               \* the TreeNode objects of the PathTreeMapping, by identity
    data,                \* PathTreeMapping.data: dict path -> terminal TreeNode
    pc,                  \* position inside FullPathMapper.map
    outcome,             \* how the last call ended: value returned or exception
    pattern_string,      \* the pattern text: local "pattern" of FullPathMapper.__init__
    root_path,           \* FullPathMapper.root_path, <<>> when there is none
    cli,                 \* the sort command: its pattern key, whether the output
                         \* directory exists, whether the user has confirmed
    number_of_chunks,    \* argument of get_executions_chunks
    sort_mapping,        \* the flat mapping handed to get_executions_chunks
    chunks,              \* the mappings of the delayed execute_mapping calls
    executed,            \* how many of the chunks have been executed
    copies,              \* the makedirs and copyfile calls made so far, in order
    broken,              \* the source files whose copy, and the directories
                         \* whose creation, raises OSError
    store,               \* DicomSortCLI.pattern_list: dict key -> pattern string
    config_file,         \* the contents of the configuration file, None before
                         \* it is written
    chunk_pc             \* per chunk run as a thread: how many makedirs and
                         \* copyfile calls it has made

patternVars == <<pattern_string, root_path>>
sortVars == <<cli, number_of_chunks, sort_mapping, chunks, executed, copies, broken>>

storeVars == <<store, config_file>>
threadVars == <<chunk_pc>>

vars == <<pattern, check_path_lengths, paths, files, mapped, nodes, data, pc, outcome,
          patternVars, sortVars, storeVars, threadVars>>

(***************************************************************************)
(* Bounds of the model.                                                    *)
(***************************************************************************)
MaxFiles == 2
ManyFiles == 10
MaxAdds == 2
MaxNodes == 3
MaxPieces == 3
MaxItems == 5
MaxChunks == 3
MaxCountAdds == 2
MaxThreadItems == 2

(***************************************************************************)
(* Strings.                                                                *)
(***************************************************************************)
DigitChars == <<"0", "1", "2", "3", "4", "5", "6", "7", "8", "9">>

RECURSIVE Concat(_)
\* "".join(list of strings)
Concat(ss) == IF ss = <<>> THEN <<>> ELSE Head(ss) \o Concat(Tail(ss))

RECURSIVE Join(_, _)
\* sep.join(list of strings)
Join(ss, sep) ==
    IF ss = <<>> THEN <<>>
    ELSE IF Len(ss) = 1 THEN ss[1]
    ELSE ss[1] \o sep \o Join(Tail(ss), sep)

Repeat(c, n) == [i \in 1..n |-> c]

RECURSIVE Str(_)
\* str(n) of a natural number
Str(n) == IF n < 10 THEN <<DigitChars[n + 1]>>
          ELSE Str(n \div 10) \o <<DigitChars[(n % 10) + 1]>>

\* format(idx, "0" + str(width)): zero padded to at least width
Format(idx, width) ==
    LET s == Str(idx) IN Repeat("0", width - Len(s)) \o s

OsSep == <<"/">>

RECURSIVE SortedSeq(_)
\* the numbers of a finite set in increasing order
SortedSeq(S) ==
    IF S = {} THEN <<>>
    ELSE LET m == CHOOSE x \in S : \A y \in S : x <= y
         IN  <<m>> \o SortedSeq(S \ {m})

\* the non-empty "/"-separated parts of s, in order
SplitPath(s) ==
    LET starts == {i \in 1..Len(s) : s[i] # "/" /\ (i = 1 \/ s[i - 1] = "/")}
        EndOf(i) == CHOOSE j \in i..Len(s) :
                        /\ j = Len(s) \/ s[j + 1] = "/"
                        /\ \A k \in i..j : k = Len(s) \/ s[k + 1] # "/" \/ k = j
        ordered == SortedSeq(starts)
    IN  [k \in 1..Len(ordered) |-> SubSeq(s, ordered[k], EndOf(ordered[k]))]

\* str(pathlib.Path(s)) on a posix system: repeated and trailing separators and
\* "." parts are dropped, exactly two leading separators are kept, "" is "."
Path(s) ==
    LET parts == SelectSeq(SplitPath(s), LAMBDA p : p # <<".">>)
        root == IF s = <<>> \/ s[1] # "/" THEN <<>>
                ELSE IF Len(s) >= 2 /\ s[2] = "/" /\ (Len(s) = 2 \/ s[3] # "/")
                     THEN <<"/", "/">>
                     ELSE <<"/">>
    IN  IF root = <<>> /\ parts = <<>> THEN <<".">>
        ELSE root \o Join(parts, OsSep)

(***************************************************************************)
(* Python dicts keep insertion order: a dict is a sequence of <<key,       *)
(* value>> pairs with distinct keys.                                       *)
(***************************************************************************)
DictKeys(d) == [i \in 1..Len(d) |-> d[i][1]]
DictHas(d, k) == \E i \in 1..Len(d) : d[i][1] = k
DictGet(d, k) == d[CHOOSE i \in 1..Len(d) : d[i][1] = k][2]
DictSet(d, k, v) ==
    IF DictHas(d, k)
    THEN [i \in 1..Len(d) |-> IF d[i][1] = k THEN <<k, v>> ELSE d[i]]
    ELSE Append(d, <<k, v>>)

(***************************************************************************)
(* Path elements of a parsed pattern (dicomsort/parser.py).                *)
(***************************************************************************)
StringLiteral(content) ==
    [type |-> "StringLiteral", content |-> content, tag |-> "", count |-> FALSE]
FolderSeparator ==
    [type |-> "FolderSeparator", content |-> <<>>, tag |-> "", count |-> FALSE]
RootSlash ==
    [type |-> "RootSlash", content |-> <<>>, tag |-> "", count |-> FALSE]
DicomTag(tag_code, count) ==
    [type |-> "DicomTag", content |-> <<>>, tag |-> tag_code, count |-> count]
DicomTagName(name, count) ==
    [type |-> "DicomTagName", content |-> <<>>, tag |-> name, count |-> count]
\* path_element=None of the sentinel
None == [type |-> "None", content |-> <<>>, tag |-> "", count |-> FALSE]

ResolvedPathElement(path_element, resolved_value) ==
    [path_element |-> path_element, resolved_value |-> resolved_value]

\* ResolvedPathElement.count(): the origin's count attribute when it has one
ElementCount(e) ==
    IF e.path_element.type \in {"DicomTag", "DicomTagName"}
    THEN e.path_element.count
    ELSE FALSE

\* a tag missing from a dataset
Absent == <<"<absent>">>

RECURSIVE Strip(_)
Strip(s) ==
    IF s = <<>> THEN s
    ELSE IF s[1] = " " THEN Strip(Tail(s))
    ELSE IF s[Len(s)] = " " THEN Strip(SubSeq(s, 1, Len(s) - 1))
    ELSE s

\* VariableElement.clean_string
clean_string(s) ==
    LET t == Strip(s) IN [i \in 1..Len(t) |-> IF t[i] = " " THEN "_" ELSE t[i]]

UNKNOWN_ELEMENT_NAME == <<"U", "N", "K", "N", "O", "W", "N">>

\* pydicom's dictionary of keywords, cut down to the tags the datasets of the
\* model hold: keyword -> <<group, element>>
keyword_dict ==
    <<<<"PatientID", <<16, 32>>>>, <<"StudyDescription", <<8, 4144>>>>,
      <<"SeriesDescription", <<8, 4158>>>>, <<"SOPInstanceUID", <<8, 24>>>>>>

\* pydicom.datadict.tag_for_keyword: the tag of a keyword, <<>> for None
tag_for_keyword(name) ==
    IF DictHas(keyword_dict, name) THEN DictGet(keyword_dict, name) ELSE <<>>

HexChars ==
    <<"0", "1", "2", "3", "4", "5", "6", "7", "8", "9", "a", "b", "c", "d", "e", "f">>
UpperHexChars ==
    <<"0", "1", "2", "3", "4", "5", "6", "7", "8", "9", "A", "B", "C", "D", "E", "F">>

RECURSIVE HexValue(_)
\* the number that a string of hexadecimal digits writes
HexValue(s) ==
    IF s = <<>> THEN 0
    ELSE LET c == s[Len(s)]
             d == CHOOSE k \in 1..Len(HexChars) : HexChars[k] = c \/ UpperHexChars[k] = c
         IN  Len(HexChars) * HexValue(SubSeq(s, 1, Len(s) - 1)) + (d - 1)

\* the tag an element looks up in the dataset: tag_for_keyword(name) of a
\* DicomTagName, (tag_code[0:4], tag_code[5:9]) of a DicomTag
TagOf(e) ==
    IF e.type = "DicomTag"
    THEN <<HexValue(SubSeq(e.tag, 1, 4)), HexValue(SubSeq(e.tag, 6, 9))>>
    ELSE tag_for_keyword(e.tag)

\* ds[tag].value, Absent where pydicom raises KeyError; the datasets of the
\* model hold their values under the keyword of the tag
DatasetValue(e, ds) ==
    LET hits == {i \in 1..Len(keyword_dict) :
                    keyword_dict[i][2] = TagOf(e) /\ keyword_dict[i][1] \in DOMAIN ds}
    IN  IF hits = {} THEN Absent ELSE ds[keyword_dict[CHOOSE i \in hits : TRUE][1]]

\* a resolution that keeps the originating element on the sentinel
ResolveKeepingOrigin(e, ds) ==
    CASE e.type = "StringLiteral" -> ResolvedPathElement(e, e.content)
      [] e.type = "FolderSeparator" -> ResolvedPathElement(e, OsSep)
      [] e.type = "RootSlash" -> ResolvedPathElement(e, <<"/">>)
      [] OTHER ->
            IF DatasetValue(e, ds) = Absent
            THEN ResolvedPathElement(e, UNKNOWN_ELEMENT_NAME)
            ELSE ResolvedPathElement(e, clean_string(DatasetValue(e, ds)))

\* path_element.resolve(ds), with generate()'s handling of DicomTagNotFoundException
Resolve(e, ds) ==
    CASE e.type = "StringLiteral" -> ResolvedPathElement(e, e.content)
      [] e.type = "FolderSeparator" -> ResolvedPathElement(e, OsSep)
      [] e.type = "RootSlash" -> ResolvedPathElement(e, <<"/">>)
      [] OTHER ->
            IF DatasetValue(e, ds) = Absent
            THEN ResolvedPathElement(None, UNKNOWN_ELEMENT_NAME)
            ELSE ResolvedPathElement(e, clean_string(DatasetValue(e, ds)))

\* a separator function that knows the root slash only
SeparatorFuncOfRootSlash(x) == x.path_element.type = "RootSlash"

\* generate()'s separator_func: lambda x: type(x.path_element) == FolderSeparator
separator_func(x) == x.path_element.type = "FolderSeparator"

RECURSIVE SplitList(_, _, _)
\* the loop of split_list: collected is the group being built, split the
\* groups closed so far
SplitList(list_in, collected, split) ==
    IF list_in = <<>>
    THEN (IF collected # <<>> THEN Append(split, collected) ELSE split)
    ELSE IF separator_func(Head(list_in))
         THEN SplitList(Tail(list_in), <<>>,
                        IF collected # <<>> THEN Append(split, collected) ELSE split)
         ELSE SplitList(Tail(list_in), Append(collected, Head(list_in)), split)

\* split_list(list_in, separator_func)
split_list(list_in) == IF list_in = <<>> THEN list_in ELSE SplitList(list_in, <<>>, <<>>)

\* PathUnit.flatten of a list of resolved elements
Flatten(path_elements) ==
    Concat([i \in 1..Len(path_elements) |-> path_elements[i].resolved_value])

\* PathGenerator.generate for a readable file: the units of the TentativePath,
\* each unit the list of resolved elements of one folder or file name
Generate(ds) ==
    LET resolved == [i \in 1..Len(pattern) |-> Resolve(pattern[i], ds)]
    IN  split_list(resolved)

\* TentativePath.flatten
TentativeFlatten(units) ==
    Join([i \in 1..Len(units) |-> Flatten(units[i])], OsSep)

(***************************************************************************)
(* The pattern parser (dicomsort/parser.py): the grammar handed to Lark,   *)
(* read character by character, the transformer, and the check of tag      *)
(* names that parse() makes afterwards.                                    *)
(***************************************************************************)
LETTER ==
    {"a", "b", "c", "d", "e", "f", "g", "h", "i", "j", "k", "l", "m",
     "n", "o", "p", "q", "r", "s", "t", "u", "v", "w", "x", "y", "z",
     "A", "B", "C", "D", "E", "F", "G", "H", "I", "J", "K", "L", "M",
     "N", "O", "P", "Q", "R", "S", "T", "U", "V", "W", "X", "Y", "Z"}
DIGIT == {DigitChars[i] : i \in 1..Len(DigitChars)}
HEXDIGIT ==
    {HexChars[i] : i \in 1..Len(HexChars)} \cup {UpperHexChars[i] : i \in 1..Len(UpperHexChars)}
\* the characters of the terminal STRING_LITERAL
STRING_LITERAL == LETTER \cup DIGIT \cup {"_", "-", "+", "."}
\* the terminal of rule count_flag
COUNT_FLAG == <<"c", "o", "u", "n", "t", ":">>

\* s[i:].startswith(p)
HasPrefixAt(s, i, p) ==
    i + Len(p) - 1 <= Len(s) /\ SubSeq(s, i, i + Len(p) - 1) = p

\* where the longest run of characters of class that starts at i ends: a
\* terminal is matched as far as it goes
RunEnd(s, i, class) ==
    CHOOSE j \in i..Len(s) :
        /\ \A k \in i..j : s[k] \in class
        /\ j = Len(s) \/ s[j + 1] \notin class

RECURSIVE NameOf(_)
\* "".join(items) of the letters of a tag name
NameOf(chars) == IF chars = <<>> THEN "" ELSE Head(chars) \o NameOf(Tail(chars))

\* rule dicom_element_tag_code: HEXDIGIT~4 COMMA HEXDIGIT~4
IsTagCode(body) ==
    /\ Len(body) = 9
    /\ body[5] = ","
    /\ \A k \in (1..4) \cup (6..9) : body[k] \in HEXDIGIT

\* a transformer that never sets the flag
DicomElementNeverCounting(count_flag, tag_element) == tag_element

\* DicomPathPatternTransformer.dicom_element: items holds "count_flag" before
\* the tag element when the reference carries the marker
dicom_element(count_flag, tag_element) ==
    IF count_flag THEN [tag_element EXCEPT !.count = TRUE] ELSE tag_element

ParseFailure == [raised |-> TRUE, element |-> None, next |-> 0]

\* rule dicom_element at s[i] = "(": the element read and the position after
\* its ")", or failure
DicomElementAt(s, i) ==
    LET count_flag == HasPrefixAt(s, i + 1, COUNT_FLAG)
        from == IF count_flag THEN i + 1 + Len(COUNT_FLAG) ELSE i + 1
        closes == {j \in from..Len(s) : s[j] = ")"}
        close == CHOOSE j \in closes : \A k \in closes : j <= k
        body == SubSeq(s, from, close - 1)
    IN  IF closes = {} THEN ParseFailure
        ELSE IF body # <<>> /\ \A k \in 1..Len(body) : body[k] \in LETTER
             THEN [raised |-> FALSE,
                   element |-> dicom_element(count_flag, DicomTagName(NameOf(body), FALSE)),
                   next |-> close + 1]
        ELSE IF IsTagCode(body)
             THEN [raised |-> FALSE,
                   element |-> dicom_element(count_flag, DicomTag(body, FALSE)),
                   next |-> close + 1]
        ELSE ParseFailure

RECURSIVE ElementsFrom(_, _, _)
\* rule element+ from position i of s, elements being what is read so far:
\* raised when the text does not match (LarkError)
ElementsFrom(s, i, elements) ==
    IF i > Len(s) THEN [raised |-> elements = <<>>, transformed |-> elements]
    ELSE IF s[i] = "("
         THEN LET r == DicomElementAt(s, i)
              IN  IF r.raised THEN [raised |-> TRUE, transformed |-> <<>>]
                  ELSE ElementsFrom(s, r.next, Append(elements, r.element))
    ELSE IF s[i] \in {"/", "\\"}
         THEN ElementsFrom(s, i + 1, Append(elements, FolderSeparator))
    ELSE IF s[i] \in STRING_LITERAL
         THEN LET j == RunEnd(s, i, STRING_LITERAL)
              IN  ElementsFrom(s, j + 1, Append(elements, StringLiteral(SubSeq(s, i, j))))
    ELSE [raised |-> TRUE, transformed |-> <<>>]

\* rule dicom_path_pattern: root_slash? element+, where a leading "/" that
\* has elements after it is the root slash (root_slash.2)
dicom_path_pattern(s) ==
    IF Len(s) >= 2 /\ s[1] = "/"
    THEN LET r == ElementsFrom(s, 2, <<>>)
         IN  [raised |-> r.raised,
              transformed |-> IF r.raised THEN <<>> ELSE <<RootSlash>> \o r.transformed]
    ELSE ElementsFrom(s, 1, <<>>)

\* is_valid of the element classes
is_valid(e) ==
    CASE e.type = "DicomTag" -> Len(e.tag) >= 9 /\ IsTagCode(SubSeq(e.tag, 1, 9))
      [] e.type = "DicomTagName" -> tag_for_keyword(e.tag) # <<>>
      [] OTHER -> TRUE

\* a parse that returns what Lark and the transformer give
ParseWithoutTagNameCheck(dicom_path_string) == dicom_path_pattern(dicom_path_string)

\* the check parse() makes of what Lark and the transformer gave: every
\* DicomTagName among the elements is_valid
CheckTagNames(parsed) ==
    IF parsed.raised THEN parsed
    ELSE IF \E k \in 1..Len(parsed.transformed) :
               /\ parsed.transformed[k].type = "DicomTagName"
               /\ ~is_valid(parsed.transformed[k])
         THEN [raised |-> TRUE, transformed |-> <<>>]
         ELSE parsed

\* DicomPathPatternParser.parse: raised stands for DicomPathParseException
parse(dicom_path_string) == CheckTagNames(dicom_path_pattern(dicom_path_string))

RECURSIVE NormComps(_, _, _)
\* the loop of os.path.normpath over the components of the path
NormComps(comps, new_comps, initial_slashes) ==
    IF comps = <<>> THEN new_comps
    ELSE LET comp == Head(comps)
         IN  IF comp = <<".">> THEN NormComps(Tail(comps), new_comps, initial_slashes)
             ELSE IF \/ comp # <<".", ".">>
                     \/ initial_slashes = 0 /\ new_comps = <<>>
                     \/ new_comps # <<>> /\ new_comps[Len(new_comps)] = <<".", ".">>
                  THEN NormComps(Tail(comps), Append(new_comps, comp), initial_slashes)
             ELSE IF new_comps # <<>>
                  THEN NormComps(Tail(comps), SubSeq(new_comps, 1, Len(new_comps) - 1),
                                 initial_slashes)
             ELSE NormComps(Tail(comps), new_comps, initial_slashes)

\* os.path.normpath on a posix system
normpath(path) ==
    LET initial_slashes ==
            IF path = <<>> \/ path[1] # "/" THEN 0
            ELSE IF Len(path) >= 2 /\ path[2] = "/" /\ (Len(path) = 2 \/ path[3] # "/")
                 THEN 2
                 ELSE 1
        joined == Repeat("/", initial_slashes)
                      \o Join(NormComps(SplitPath(path), <<>>, initial_slashes), OsSep)
    IN  IF joined = <<>> THEN <<".">> ELSE joined

(***************************************************************************)
(* The prefix tree.  A TreeNode is a record held in nodes under its        *)
(* identity (its position); parent = 0 is parent=None.                     *)
(***************************************************************************)
Root == 1

TreeNode(path_elements, parent) ==
    [path_elements |-> path_elements, children |-> <<>>, parent |-> parent]

EmptyTree == <<TreeNode(<<>>, 0)>>

\* a lookup that only ever sees the first child
ChildMapGetFirstOnly(ns, self, key) ==
    LET kids == ns[self].children
    IN  IF kids # <<>> /\ Flatten(ns[kids[1]].path_elements) = key THEN kids[1] ELSE 0

\* child_map[key] of TreeNode.add: the child of self whose flatten() is key
\* (the last one, as dict() keeps the last of equal keys), 0 when there is none
ChildMapGet(ns, self, key) ==
    LET kids == ns[self].children
        hits == {i \in 1..Len(kids) : Flatten(ns[kids[i]].path_elements) = key}
    IN  IF hits = {} THEN 0
        ELSE kids[CHOOSE i \in hits : \A j \in hits : j <= i]

RECURSIVE TreeNodeAdd(_, _, _)
\* TreeNode.add(path_in) on node self: the nodes afterwards, the node returned,
\* and whether pop(0) raised IndexError (an empty path)
TreeNodeAdd(ns, self, path_in) ==
    IF path_in = <<>>
    THEN [nodes |-> ns, node |-> 0, raised |-> TRUE]
    ELSE LET unit == Head(path_in)
             rest == Tail(path_in)
             found == ChildMapGet(ns, self, Flatten(unit))
             new == Len(ns) + 1
             appended == Append([ns EXCEPT ![self].children = Append(@, new)],
                                TreeNode(unit, self))
         IN  IF rest = <<>>
             THEN IF found # 0
                  THEN [nodes |-> ns, node |-> found, raised |-> FALSE]
                  ELSE [nodes |-> appended, node |-> new, raised |-> FALSE]
             ELSE IF found # 0
                  THEN TreeNodeAdd(ns, found, rest)
                  ELSE TreeNodeAdd(appended, new, rest)

\* the tentative path itself, handed on without a copy
SameObject(path) == [units |-> path, original |-> TRUE]

\* copy.deepcopy(path): an equal tentative path that is another object than
\* the one the straight mapping holds
deepcopy(path) == [units |-> path, original |-> FALSE]

RECURSIVE AsTreeFrom(_, _, _, _)
\* the loop of as_tree from item i on; added is the number of items that
\* were handed to add
AsTreeFrom(d, i, ns, dt) ==
    IF i > Len(d) THEN [nodes |-> ns, data |-> dt, raised |-> FALSE, added |-> Len(d)]
    ELSE LET r == TreeNodeAdd(ns, Root, deepcopy(d[i][2]).units)
         IN  IF r.raised THEN [nodes |-> ns, data |-> dt, raised |-> TRUE, added |-> i]
             ELSE AsTreeFrom(d, i + 1, r.nodes, DictSet(dt, d[i][1], r.node))

\* the data of the straight mapping once as_tree has handed its first added
\* items to add: add pops every unit off the object it is handed (pop(0) at
\* each level), so an item handed over as itself is left without units
DataAfterAsTree(d, added) ==
    [i \in 1..Len(d) |->
        IF i <= added /\ deepcopy(d[i][2]).original THEN <<d[i][1], <<>>>> ELSE d[i]]

\* StraightPathMapping.as_tree: every tentative path (a deep copy of it) is
\* added to a fresh PathTreeMapping, in the order of the dict
AsTreeOf(d) == AsTreeFrom(d, 1, EmptyTree, <<>>)

RECURSIVE GetAllParentElements(_, _)
\* TreeNode.get_all_parent_elements: the node with its ancestors before it
GetAllParentElements(ns, n) ==
    IF ns[n].parent # 0
    THEN Append(GetAllParentElements(ns, ns[n].parent), n)
    ELSE <<n>>

\* TreeNode.flatten of node n
NodeFlatten(ns, n) == Flatten(ns[n].path_elements)

\* PathTreeMapping.as_flat_dict
TreeFlatDict(ns, dt) ==
    [i \in 1..Len(dt) |->
        LET all_nodes_for_path == Tail(GetAllParentElements(ns, dt[i][2]))
        IN  <<dt[i][1],
              Path(Join([k \in 1..Len(all_nodes_for_path) |->
                            NodeFlatten(ns, all_nodes_for_path[k])], OsSep))>>]

\* StraightPathMapping.as_flat_dict
StraightFlatDict(d) ==
    [i \in 1..Len(d) |-> <<d[i][1], Path(TentativeFlatten(d[i][2]))>>]

RECURSIVE ReverseMapping(_, _, _)
ReverseMapping(flat, i, rm) ==
    IF i > Len(flat) THEN rm
    ELSE LET key == flat[i][1]
             value == flat[i][2]
             sofar == IF DictHas(rm, value) THEN DictGet(rm, value) ELSE <<>>
         IN  ReverseMapping(flat, i + 1, DictSet(rm, value, Append(sofar, key)))

\* a report that wants more than two original paths
GetOverlappingAboveTwo(flat) ==
    SelectSeq(ReverseMapping(flat, 1, <<>>), LAMBDA xy : Len(xy[2]) > 2)

\* PathMapping.get_overlapping on a flat dict
GetOverlapping(flat) ==
    SelectSeq(ReverseMapping(flat, 1, <<>>),
              LAMBDA xy : Len(xy[2]) > 1)

(***************************************************************************)
(* The counting pass.  enumerate(set(...)) numbers the distinct values in  *)
(* the iteration order of a set of strings, which is any order: every      *)
(* bijection onto 0..N-1 is a possible numbering.                          *)
(***************************************************************************)
Bijections(S, T) ==
    {f \in [S -> T] : \A a, b \in S : a # b => f[a] # f[b]}

\* the children of node n that have an element at position idx, in order
GroupMembers(ns, n, idx) ==
    SelectSeq(ns[n].children, LAMBDA c : Len(ns[c].path_elements) >= idx)

\* elementlist = path_elements_for_all_children[idx - 1]
ElementList(ns, n, idx) ==
    LET members == GroupMembers(ns, n, idx)
    IN  [k \in 1..Len(members) |-> ns[members[k]].path_elements[idx]]

\* a width taken from the largest index instead of the number of elements
StringLengthOfLargestIndex(elementlist) == Len(Str(Len(elementlist) - 1))

\* string_length of apply_count for one elementlist
StringLength(elementlist) == Len(Str(Len(elementlist)))

\* a numbering made from the list of values instead of their set: a value that
\* occurs twice takes the position of its last occurrence
CountGroupOverList(ns, n, idx) ==
    LET members == GroupMembers(ns, n, idx)
        elementlist == ElementList(ns, n, idx)
        string_length == StringLength(elementlist)
        LastIndex(v) == (CHOOSE k \in 1..Len(elementlist) :
                            /\ elementlist[k].resolved_value = v
                            /\ \A l \in (k + 1)..Len(elementlist) :
                                  elementlist[l].resolved_value # v) - 1
    IN  IF ElementCount(elementlist[1])
        THEN {[c \in 1..Len(ns) |->
                 IF \E k \in 1..Len(members) : members[k] = c
                 THEN [ns[c] EXCEPT !.path_elements[idx].resolved_value =
                                        Format(LastIndex(@), string_length)]
                 ELSE ns[c]]}
        ELSE {ns}

\* a renumbering of every group, whether its first member counts or not
CountGroupAlways(ns, n, idx) ==
    LET members == GroupMembers(ns, n, idx)
        elementlist == ElementList(ns, n, idx)
        values == {elementlist[k].resolved_value : k \in 1..Len(elementlist)}
        string_length == StringLength(elementlist)
    IN  {[c \in 1..Len(ns) |->
            IF \E k \in 1..Len(members) : members[k] = c
            THEN [ns[c] EXCEPT !.path_elements[idx].resolved_value =
                                   Format(mapping[@], string_length)]
            ELSE ns[c]]
         : mapping \in Bijections(values, 0..(Cardinality(values) - 1))}

\* a numbering that starts at one
CountGroupFromOne(ns, n, idx) ==
    LET members == GroupMembers(ns, n, idx)
        elementlist == ElementList(ns, n, idx)
        values == {elementlist[k].resolved_value : k \in 1..Len(elementlist)}
        string_length == StringLength(elementlist)
    IN  IF ElementCount(elementlist[1])
        THEN {[c \in 1..Len(ns) |->
                 IF \E k \in 1..Len(members) : members[k] = c
                 THEN [ns[c] EXCEPT !.path_elements[idx].resolved_value =
                                        Format(mapping[@], string_length)]
                 ELSE ns[c]]
              : mapping \in Bijections(values, 1..Cardinality(values))}
        ELSE {ns}

\* a renumbering of every group that has some member that counts
CountGroupIfAnyCounts(ns, n, idx) ==
    LET members == GroupMembers(ns, n, idx)
        elementlist == ElementList(ns, n, idx)
        values == {elementlist[k].resolved_value : k \in 1..Len(elementlist)}
        string_length == StringLength(elementlist)
    IN  IF \E k \in 1..Len(elementlist) : ElementCount(elementlist[k])
        THEN {[c \in 1..Len(ns) |->
                 IF \E k \in 1..Len(members) : members[k] = c
                 THEN [ns[c] EXCEPT !.path_elements[idx].resolved_value =
                                        Format(mapping[@], string_length)]
                 ELSE ns[c]]
              : mapping \in Bijections(values, 0..(Cardinality(values) - 1))}
        ELSE {ns}

\* the renumbering of one positional group among the children of node n: the
\* set of possible node tables afterwards (one per order of the set)
CountGroup(ns, n, idx) ==
    LET members == GroupMembers(ns, n, idx)
        elementlist == ElementList(ns, n, idx)
        values == {elementlist[k].resolved_value : k \in 1..Len(elementlist)}
        string_length == StringLength(elementlist)
    IN  IF ElementCount(elementlist[1])
        THEN {[c \in 1..Len(ns) |->
                 IF \E k \in 1..Len(members) : members[k] = c
                 THEN [ns[c] EXCEPT !.path_elements[idx].resolved_value =
                                        Format(mapping[@], string_length)]
                 ELSE ns[c]]
              : mapping \in Bijections(values, 0..(Cardinality(values) - 1))}
        ELSE {ns}

\* the largest number of elements of a child of node n
MaxElements(ns, n) ==
    LET lens == {Len(ns[c].path_elements) : c \in {ns[n].children[k] : k \in 1..Len(ns[n].children)}}
    IN  IF lens = {} THEN 0 ELSE CHOOSE m \in lens : \A l \in lens : l <= m

RECURSIVE CountGroups(_, _, _)
\* the loop "for elementlist in path_elements_for_all_children.values()"
CountGroups(ns, n, idx) ==
    IF idx > MaxElements(ns, n) THEN {ns}
    ELSE UNION {CountGroups(nn, n, idx + 1) : nn \in CountGroup(ns, n, idx)}

RECURSIVE ApplyCountAt(_, _)
RECURSIVE ApplyCountChildren(_, _)
\* PathTreeMapping.apply_count(node): the possible node tables afterwards
ApplyCountAt(ns, n) ==
    UNION {ApplyCountChildren(nn, ns[n].children) : nn \in CountGroups(ns, n, 1)}

\* the loop "for child in node.children: self.apply_count(child)"
ApplyCountChildren(ns, kids) ==
    IF kids = <<>> THEN {ns}
    ELSE UNION {ApplyCountChildren(nn, Tail(kids)) : nn \in ApplyCountAt(ns, Head(kids))}

(***************************************************************************)
(* FullPathMapper.map after the counting pass: the three checks.           *)
(***************************************************************************)
WINDOWS_PATH_LENGTH_LIMIT == 260

\* "if mapped in flat.keys()" for some item of flat
MapsOntoInput(flat) ==
    \E i, j \in 1..Len(flat) : flat[i][2] = flat[j][1]

\* a limit that already refuses a path of exactly the limit
ProblematicFromLimit(flat) ==
    SelectSeq(flat, LAMBDA xy : Len(xy[2]) >= WINDOWS_PATH_LENGTH_LIMIT)

\* the paths of flat longer than the limit (problematic_in_windows)
ProblematicInWindows(flat) ==
    SelectSeq(flat, LAMBDA xy : Len(xy[2]) > WINDOWS_PATH_LENGTH_LIMIT)

\* the overlap check made on the straight mapping, before the counting pass
MapOutcomeOverlapBeforeCount(ns, dt, check) ==
    LET flat == TreeFlatDict(ns, dt)
    IN  IF GetOverlapping(StraightFlatDict(mapped)) # <<>>
        THEN "OverlappingFilePathException"
        ELSE IF \E i, j \in 1..Len(flat) : flat[i][2] = flat[j][1]
             THEN "UnsafeMappingException"
        ELSE IF check /\ SelectSeq(flat, LAMBDA xy : Len(xy[2]) > WINDOWS_PATH_LENGTH_LIMIT) # <<>>
             THEN "PathTooLongForWindowsException"
             ELSE "returned"

\* lines 128-150 of FullPathMapper.map: the exception raised, or "returned"
MapOutcome(ns, dt, check) ==
    LET flat == TreeFlatDict(ns, dt)
    IN  IF GetOverlapping(flat) # <<>> THEN "OverlappingFilePathException"
        ELSE IF MapsOntoInput(flat) THEN "UnsafeMappingException"
        ELSE IF check /\ ProblematicInWindows(flat) # <<>>
             THEN "PathTooLongForWindowsException"
             ELSE "returned"

(***************************************************************************)
(* Inputs: patterns as the parser returns them, and the files mapped.      *)
(***************************************************************************)
Tags == {"PatientID", "StudyDescription", "SeriesDescription", "SOPInstanceUID"}

\* a value that leaves room for a separator and one more character
LongValue == Repeat("a", WINDOWS_PATH_LENGTH_LIMIT - 2)

TagValues(tag) ==
    CASE tag = "PatientID" -> {<<"x">>, <<"x", "0">>}
      [] tag = "StudyDescription" -> {<<"p">>, <<"q">>, Absent}
      [] tag = "SeriesDescription" -> {<<"y">>, <<"1", "y">>, <<" ", "y">>}
      [] tag = "SOPInstanceUID" -> {LongValue, <<>>}

\* "(PatientID)"
PatSilly == <<DicomTagName("PatientID", FALSE)>>
\* "/"
PatSeparator == <<FolderSeparator>>
\* "f(count:StudyDescription)"
PatFileCount == <<StringLiteral(<<"f">>), DicomTagName("StudyDescription", TRUE)>>
\* "/(PatientID)/f(count:StudyDescription)"
PatFolderCount ==
    <<RootSlash, DicomTagName("PatientID", FALSE), FolderSeparator,
      StringLiteral(<<"f">>), DicomTagName("StudyDescription", TRUE)>>
\* "(PatientID)(count:StudyDescription)(SeriesDescription)"
PatSandwich ==
    <<DicomTagName("PatientID", FALSE), DicomTagName("StudyDescription", TRUE),
      DicomTagName("SeriesDescription", FALSE)>>
\* "(SOPInstanceUID)/(SeriesDescription)"
PatLong ==
    <<DicomTagName("SOPInstanceUID", FALSE), FolderSeparator,
      DicomTagName("SeriesDescription", FALSE)>>
\* "(count:StudyDescription)(SeriesDescription)"
PatCountFirst ==
    <<DicomTagName("StudyDescription", TRUE), DicomTagName("SeriesDescription", FALSE)>>

Patterns ==
    {PatSilly, PatSeparator, PatFileCount, PatFolderCount, PatSandwich, PatLong,
     PatCountFirst}

\* the texts of the patterns above
TextSilly ==
    <<"(", "P", "a", "t", "i", "e", "n", "t", "I", "D", ")">>
TextSeparator ==
    <<"/">>
TextFileCount ==
    <<"f", "(", "c", "o", "u", "n", "t", ":", "S", "t", "u", "d", "y", "D",
      "e", "s", "c", "r", "i", "p", "t", "i", "o", "n", ")">>
TextFolderCount ==
    <<"/", "(", "P", "a", "t", "i", "e", "n", "t", "I", "D", ")", "/", "f",
      "(", "c", "o", "u", "n", "t", ":", "S", "t", "u", "d", "y", "D", "e",
      "s", "c", "r", "i", "p", "t", "i", "o", "n", ")">>
TextSandwich ==
    <<"(", "P", "a", "t", "i", "e", "n", "t", "I", "D", ")", "(", "c", "o",
      "u", "n", "t", ":", "S", "t", "u", "d", "y", "D", "e", "s", "c", "r",
      "i", "p", "t", "i", "o", "n", ")", "(", "S", "e", "r", "i", "e", "s",
      "D", "e", "s", "c", "r", "i", "p", "t", "i", "o", "n", ")">>
TextLong ==
    <<"(", "S", "O", "P", "I", "n", "s", "t", "a", "n", "c", "e", "U", "I",
      "D", ")", "/", "(", "S", "e", "r", "i", "e", "s", "D", "e", "s", "c",
      "r", "i", "p", "t", "i", "o", "n", ")">>
TextCountFirst ==
    <<"(", "c", "o", "u", "n", "t", ":", "S", "t", "u", "d", "y", "D", "e",
      "s", "c", "r", "i", "p", "t", "i", "o", "n", ")", "(", "S", "e", "r",
      "i", "e", "s", "D", "e", "s", "c", "r", "i", "p", "t", "i", "o", "n",
      ")">>

\* DicomPathPattern.pattern_string of a pattern of Patterns
TextOf(pat) ==
    CASE pat = PatSilly -> TextSilly
      [] pat = PatSeparator -> TextSeparator
      [] pat = PatFileCount -> TextFileCount
      [] pat = PatFolderCount -> TextFolderCount
      [] pat = PatSandwich -> TextSandwich
      [] pat = PatLong -> TextLong
      [] pat = PatCountFirst -> TextCountFirst

TagsOf(pat) ==
    {pat[i].tag : i \in {k \in 1..Len(pat) : pat[k].type \in {"DicomTag", "DicomTagName"}}}

\* the datasets a file can hold; tags the pattern does not use are left out
Datasets(pat) ==
    {ds \in [Tags -> UNION {TagValues(t) : t \in Tags} \cup {Absent}] :
        \A t \in Tags : IF t \in TagsOf(pat) THEN ds[t] \in TagValues(t)
                                             ELSE ds[t] = Absent}

NoDataset == [t \in Tags |-> Absent]

\* a file that pydicom reads, or one that raises InvalidDicomError
FilesOf(pat) ==
    {[readable |-> TRUE, ds |-> ds] : ds \in Datasets(pat)}
        \cup {[readable |-> FALSE, ds |-> NoDataset]}

\* the name of the i-th input file: f0, f1, ...
InputPath(i) == <<"f">> \o Str(i - 1)

\* many files in one folder that differ in their series only
ManyFilesInput ==
    [i \in 1..ManyFiles |->
        [readable |-> TRUE,
         ds |-> [NoDataset EXCEPT !["StudyDescription"] = <<"p">>,
                                  !["SeriesDescription"] = Str(i - 1)]]]

\* no pattern command has run and no chunk runs as a thread
NoStore ==
    /\ store = <<>>
    /\ config_file = [exists |-> FALSE, items |-> <<>>]
    /\ chunk_pc = <<>>

\* no sort command is running
NoSort ==
    /\ cli = [pattern |-> "", output_dir_exists |-> FALSE, confirmed |-> FALSE]
    /\ number_of_chunks = 0
    /\ sort_mapping = <<>>
    /\ chunks = <<>>
    /\ executed = 0
    /\ copies = <<>>
    /\ broken = {}

Init ==
    /\ \/ /\ pattern \in Patterns
          /\ \E n \in 0..MaxFiles : files \in [1..n -> FilesOf(pattern)]
       \/ /\ pattern = PatCountFirst
          /\ files = ManyFilesInput
    /\ paths = [i \in 1..Len(files) |-> InputPath(i)]
    /\ check_path_lengths \in BOOLEAN
    /\ mapped = <<>>
    /\ nodes = EmptyTree
    /\ data = <<>>
    /\ pc = "start"
    /\ outcome = "none"
    /\ pattern_string = TextOf(pattern)
    /\ root_path = <<>>
    /\ NoSort
    /\ NoStore

(***************************************************************************)
(* FullPathMapper.map, one action per call it makes.                       *)
(***************************************************************************)
RECURSIVE StraightMapUntilUnreadable(_, _)
\* a loop that the first unreadable file ends
StraightMapUntilUnreadable(i, mapping) ==
    IF i > Len(paths) THEN mapping
    ELSE IF files[i].readable
         THEN StraightMapUntilUnreadable(i + 1,
                                         DictSet(mapping, paths[i], Generate(files[i].ds)))
         ELSE mapping

RECURSIVE StraightMapFrom(_, _)
\* the loop of StraightPathMapper.map from path i on: a path whose file
\* raises PathGeneratorException goes to paths_ignored_dicom_error
StraightMapFrom(i, mapping) ==
    IF i > Len(paths) THEN mapping
    ELSE IF files[i].readable
         THEN StraightMapFrom(i + 1, DictSet(mapping, paths[i], Generate(files[i].ds)))
         ELSE StraightMapFrom(i + 1, mapping)

\* StraightPathMapper.map(paths)
StraightMap ==
    /\ pc = "start"
    /\ mapped' = StraightMapFrom(1, <<>>)
    /\ pc' = "mapped"
    /\ UNCHANGED <<pattern, check_path_lengths, paths, files, nodes, data, outcome>>
    /\ UNCHANGED <<patternVars, sortVars, storeVars, threadVars>>

\* StraightPathMapping.as_tree()
AsTree ==
    /\ pc = "mapped"
    /\ LET r == AsTreeOf(mapped)
       IN  /\ nodes' = r.nodes
           /\ data' = r.data
           /\ mapped' = DataAfterAsTree(mapped, r.added)
           /\ IF r.raised
              THEN pc' = "done" /\ outcome' = "IndexError"
              ELSE pc' = "tree" /\ outcome' = outcome
    /\ UNCHANGED <<pattern, check_path_lengths, paths, files>>
    /\ UNCHANGED <<patternVars, sortVars, storeVars, threadVars>>

\* PathTreeMapping.apply_count()
ApplyCount ==
    /\ pc = "tree"
    /\ nodes' \in ApplyCountAt(nodes, Root)
    /\ pc' = "counted"
    /\ UNCHANGED <<pattern, check_path_lengths, paths, files, mapped, data, outcome>>
    /\ UNCHANGED <<patternVars, sortVars, storeVars, threadVars>>

\* the checks of FullPathMapper.map and its return
Validate ==
    /\ pc = "counted"
    /\ outcome' = MapOutcome(nodes, data, check_path_lengths)
    /\ pc' = "done"
    /\ UNCHANGED <<pattern, check_path_lengths, paths, files, mapped, nodes, data>>
    /\ UNCHANGED <<patternVars, sortVars, storeVars, threadVars>>

Next == StraightMap \/ AsTree \/ ApplyCount \/ Validate

Spec == Init /\ [][Next]_vars

(***************************************************************************)
(* map() followed by a second apply_count on the tree it returned.         *)
(***************************************************************************)
\* flat = tree.as_flat_dict(); tree.apply_count() by the caller of map()
ApplyCountAgain ==
    /\ pc = "done"
    /\ outcome = "returned"
    /\ sort_mapping' = TreeFlatDict(nodes, data)
    /\ nodes' \in ApplyCountAt(nodes, Root)
    /\ pc' = "recounted"
    /\ UNCHANGED <<pattern, check_path_lengths, paths, files, mapped, data, outcome,
                   patternVars, cli, number_of_chunks, chunks, executed, copies, broken,
                   storeVars, threadVars>>

NextRecount == StraightMap \/ AsTree \/ ApplyCount \/ Validate \/ ApplyCountAgain

SpecRecount == Init /\ [][NextRecount]_vars

(***************************************************************************)
(* map() of files whose tags hold an empty value or a value with a "/".    *)
(***************************************************************************)
\* "(PatientID)/(SeriesDescription)"
PatTwoFolders ==
    <<DicomTagName("PatientID", FALSE), FolderSeparator,
      DicomTagName("SeriesDescription", FALSE)>>
TextTwoFolders ==
    <<"(", "P", "a", "t", "i", "e", "n", "t", "I", "D", ")", "/", "(", "S",
      "e", "r", "i", "e", "s", "D", "e", "s", "c", "r", "i", "p", "t", "i",
      "o", "n", ")">>

\* files of two patients; the series description is a word, is empty, or
\* holds a slash
FolderFiles ==
    {[readable |-> TRUE,
      ds |-> [NoDataset EXCEPT !["PatientID"] = id, !["SeriesDescription"] = series]] :
        id \in {<<"x">>, <<"x", "0">>}, series \in {<<"y">>, <<>>, <<"y", "/", "z">>}}
        \cup {[readable |-> FALSE, ds |-> NoDataset]}

InitFolders ==
    /\ pattern = PatTwoFolders
    /\ pattern_string = TextTwoFolders
    /\ \E n \in 0..MaxFiles : files \in [1..n -> FolderFiles]
    /\ paths = [i \in 1..Len(files) |-> InputPath(i)]
    /\ check_path_lengths \in BOOLEAN
    /\ mapped = <<>>
    /\ nodes = EmptyTree
    /\ data = <<>>
    /\ pc = "start"
    /\ outcome = "none"
    /\ root_path = <<>>
    /\ NoSort
    /\ NoStore

SpecFolders == InitFolders /\ [][Next]_vars

(***************************************************************************)
(* FullPathMapper built from a pattern text and a root path, then map().   *)
(***************************************************************************)
\* the pieces pattern texts are put together from: separators, a literal
\* letter (also an unknown tag name when in parentheses), "..", the parts of
\* a reference, a tag code, half a tag code and two whole references
Pieces ==
    {<<"/">>,
     <<"\\">>,
     <<"a">>,
     <<".", ".">>,
     <<"(">>,
     <<"(", "c", "o", "u", "n", "t", ":">>,
     <<")">>,
     <<"0", "0", "1", "0", ",", "0", "0", "2", "0">>,
     <<"0", "0", "1", "0">>,
     <<"(", "P", "a", "t", "i", "e", "n", "t", "I", "D", ")">>,
     <<"(", "c", "o", "u", "n", "t", ":", "S", "t", "u", "d", "y", "D", "e",
       "s", "c", "r", "i", "p", "t", "i", "o", "n", ")">>}

\* the pattern texts: up to MaxPieces pieces in a row
PatternStrings ==
    {Concat(ps) : ps \in UNION {[1..n -> Pieces] : n \in 0..MaxPieces}}

\* no root path, or the folder /r
RootPaths == {<<>>, <<"/", "r">>}

\* one file with both tags, or that file and one without a study description
PatternFiles ==
    LET one == [readable |-> TRUE,
                ds |-> [NoDataset EXCEPT !["PatientID"] = <<"x">>,
                                         !["StudyDescription"] = <<"p">>]]
        other == [readable |-> TRUE,
                  ds |-> [NoDataset EXCEPT !["PatientID"] = <<"x", "0">>]]
    IN  {<<one>>, <<one, other>>}

InitPattern ==
    /\ pattern_string \in PatternStrings
    /\ root_path \in RootPaths
    /\ pattern = <<>>
    /\ files \in PatternFiles
    /\ paths = [i \in 1..Len(files) |-> InputPath(i)]
    /\ check_path_lengths = TRUE
    /\ mapped = <<>>
    /\ nodes = EmptyTree
    /\ data = <<>>
    /\ pc = "init"
    /\ outcome = "none"
    /\ NoSort
    /\ NoStore

\* FullPathMapper.__init__(pattern, root_path): the pattern text is put under
\* the root path and normalised, then parsed by DicomPathPattern
FullPathMapperInit ==
    /\ pc = "init"
    /\ LET text == IF root_path # <<>>
                   THEN normpath(root_path \o OsSep \o pattern_string)
                   ELSE pattern_string
           parsed == parse(text)
       IN  /\ pattern_string' = text
           /\ IF parsed.raised
              THEN /\ pattern' = <<>>
                   /\ pc' = "done"
                   /\ outcome' = "DicomPathPatternException"
              ELSE /\ pattern' = parsed.transformed
                   /\ pc' = "start"
                   /\ outcome' = outcome
    /\ UNCHANGED <<check_path_lengths, paths, files, mapped, nodes, data, root_path,
                   sortVars, storeVars, threadVars>>

NextPattern == FullPathMapperInit \/ StraightMap \/ AsTree \/ ApplyCount \/ Validate

SpecPattern == InitPattern /\ [][NextPattern]_vars

(***************************************************************************)
(* The tree on its own: PathTreeMapping.add and TreeNode.add called with   *)
(* arbitrary tentative paths, in any order.                                *)
(***************************************************************************)
Literal(value) == ResolvedPathElement(StringLiteral(value), value)

\* units with equal and with different flattened names: a, ab, a+b
AddUnits ==
    {<<Literal(<<"a">>)>>, <<Literal(<<"a", "b">>)>>,
     <<Literal(<<"a">>), Literal(<<"b">>)>>}

\* tentative paths of no, one or two units
TentativePaths ==
    {<<>>} \cup {<<u>> : u \in AddUnits}
        \cup {<<u, <<Literal(v)>>>> : u \in AddUnits, v \in {<<"a">>, <<"a", "b">>}}

InitAdd ==
    /\ pattern = <<>>
    /\ check_path_lengths = TRUE
    /\ paths = <<>>
    /\ files = <<>>
    /\ mapped = <<>>
    /\ nodes = EmptyTree
    /\ data = <<>>
    /\ pc = "add"
    /\ outcome = "none"
    /\ pattern_string = <<>>
    /\ root_path = <<>>
    /\ NoSort
    /\ NoStore

\* tree_mapping[org_path] = tree_mapping.add(path), path a copy of the caller's
PathTreeMappingAdd ==
    /\ pc = "add"
    /\ Len(paths) < MaxAdds
    /\ \E path \in TentativePaths :
         LET org_path == InputPath(Len(paths) + 1)
             r == TreeNodeAdd(nodes, Root, path)
         IN  /\ paths' = Append(paths, org_path)
             /\ mapped' = DictSet(mapped, org_path, path)
             /\ IF r.raised
                THEN /\ outcome' = "IndexError"
                     /\ UNCHANGED <<nodes, data>>
                ELSE /\ outcome' = "returned"
                     /\ nodes' = r.nodes
                     /\ data' = DictSet(data, org_path, r.node)
    /\ UNCHANGED <<pattern, check_path_lengths, files, pc>>
    /\ UNCHANGED <<patternVars, sortVars, storeVars, threadVars>>

\* node.add(path) on any node of the tree
TreeNodeAddAt ==
    /\ pc = "add"
    /\ Len(nodes) < MaxNodes
    /\ \E n \in 1..Len(nodes), path \in TentativePaths :
         LET r == TreeNodeAdd(nodes, n, path)
         IN  IF r.raised
             THEN outcome' = "IndexError" /\ nodes' = nodes
             ELSE outcome' = "returned" /\ nodes' = r.nodes
    /\ UNCHANGED <<pattern, check_path_lengths, paths, files, mapped, data, pc>>
    /\ UNCHANGED <<patternVars, sortVars, storeVars, threadVars>>

NextAdd == PathTreeMappingAdd \/ TreeNodeAddAt

SpecAdd == InitAdd /\ [][NextAdd]_vars

(***************************************************************************)
(* The counting pass on a tree built by add calls: the children of a node  *)
(* may then have different numbers of elements.                            *)
(***************************************************************************)
\* a resolved element of a tag that counts
Counted(value) ==
    ResolvedPathElement(DicomTagName("StudyDescription", TRUE), value)

\* units of one and of two elements, with and without a counting element
CountUnits ==
    {<<Literal(<<"a">>)>>, <<Counted(<<"p">>)>>, <<Counted(<<"q">>)>>,
     <<Literal(<<"a">>), Counted(<<"p">>)>>, <<Literal(<<"b">>), Counted(<<"q">>)>>,
     <<Counted(<<"p">>), Literal(<<"a">>)>>}

\* tentative paths of one or two units
CountPaths ==
    {<<u>> : u \in CountUnits} \cup {<<u, <<Counted(<<"p">>)>>>> : u \in CountUnits}

InitCountAdd ==
    /\ pattern = <<>>
    /\ check_path_lengths = TRUE
    /\ paths = <<>>
    /\ files = <<>>
    /\ mapped = <<>>
    /\ nodes = EmptyTree
    /\ data = <<>>
    /\ pc = "add"
    /\ outcome = "none"
    /\ pattern_string = <<>>
    /\ root_path = <<>>
    /\ NoSort
    /\ NoStore

\* tree_mapping[org_path] = tree_mapping.add(path)
AddCounted ==
    /\ pc = "add"
    /\ Len(paths) < MaxCountAdds
    /\ \E path \in CountPaths :
         LET org_path == InputPath(Len(paths) + 1)
             r == TreeNodeAdd(nodes, Root, path)
         IN  /\ paths' = Append(paths, org_path)
             /\ mapped' = DictSet(mapped, org_path, path)
             /\ nodes' = r.nodes
             /\ data' = DictSet(data, org_path, r.node)
             /\ outcome' = "returned"
    /\ UNCHANGED <<pattern, check_path_lengths, files, pc>>
    /\ UNCHANGED <<patternVars, sortVars, storeVars, threadVars>>

\* tree_mapping.apply_count(): nothing in it raises, it returns None
ApplyCountAdded ==
    /\ pc = "add"
    /\ nodes' \in ApplyCountAt(nodes, Root)
    /\ pc' = "counted"
    /\ outcome' = "returned"
    /\ UNCHANGED <<pattern, check_path_lengths, paths, files, mapped, data>>
    /\ UNCHANGED <<patternVars, sortVars, storeVars, threadVars>>

NextCountAdd == AddCounted \/ ApplyCountAdded

SpecCountAdd == InitCountAdd /\ [][NextCountAdd]_vars

(***************************************************************************)
(* Executing a mapping (dicomsort/folderprocessing.py).                    *)
(***************************************************************************)
\* str(destination.parent) of a normalised path
Parent(p) ==
    LET slashes == {i \in 1..Len(p) : p[i] = "/"}
        last == CHOOSE i \in slashes : \A j \in slashes : j <= i
    IN  IF slashes = {} THEN <<".">>
        ELSE IF \A i \in 1..last : p[i] = "/" THEN SubSeq(p, 1, last)
        ELSE SubSeq(p, 1, last - 1)

\* list(mapping.items())[i::number_of_chunks], i counted from 0
ItemsFrom(items, i, step) ==
    LET picked == {k \in 1..Len(items) : k > i /\ (k - 1 - i) % step = 0}
    IN  [j \in 1..Cardinality(picked) |-> items[i + 1 + (j - 1) * step]]

\* chunks of equal size cut off the front of the mapping, what is left over
\* going to no chunk
EqualChunksFromFront(mapping, chunk_count) ==
    LET size == Len(mapping) \div chunk_count
    IN  [c \in 1..chunk_count |-> SubSeq(mapping, (c - 1) * size + 1, c * size)]

\* FolderMapper.get_executions_chunks: the mappings of the delayed
\* execute_mapping calls, in order
get_executions_chunks(mapping, chunk_count) ==
    [c \in 1..chunk_count |-> ItemsFrom(mapping, c - 1, chunk_count)]

RECURSIVE ExecuteMappingPastErrors(_, _, _)
\* a loop that goes on with the next item after an OSError
ExecuteMappingPastErrors(mapping, i, log) ==
    IF i > Len(mapping) THEN [copies |-> log, raised |-> FALSE]
    ELSE LET source == mapping[i][1]
             destination == mapping[i][2]
             made == Append(log, [call |-> "makedirs", source |-> <<>>,
                                  destination |-> Parent(destination)])
             r == ExecuteMappingPastErrors(mapping, i + 1,
                      IF Parent(destination) \in broken THEN log
                      ELSE IF source \in broken THEN made
                      ELSE Append(made, [call |-> "copyfile", source |-> source,
                                         destination |-> destination]))
         IN  [copies |-> r.copies,
              raised |-> r.raised \/ Parent(destination) \in broken \/ source \in broken]

RECURSIVE ExecuteMapping(_, _, _)
\* FolderMapper.execute_mapping from item i on: the calls that were made and
\* did not raise, added to log, and whether an OSError (makedirs of a
\* directory in broken, copyfile of a source in broken) ended it as
\* FolderMapperException
ExecuteMapping(mapping, i, log) ==
    IF i > Len(mapping) THEN [copies |-> log, raised |-> FALSE]
    ELSE LET source == mapping[i][1]
             destination == mapping[i][2]
             made == Append(log, [call |-> "makedirs", source |-> <<>>,
                                  destination |-> Parent(destination)])
         IN  IF Parent(destination) \in broken THEN [copies |-> log, raised |-> TRUE]
             ELSE IF source \in broken THEN [copies |-> made, raised |-> TRUE]
             ELSE ExecuteMapping(mapping, i + 1,
                                 Append(made, [call |-> "copyfile", source |-> source,
                                               destination |-> destination]))

\* a user mapping of n files f0, f1, .. to o/d0, o/d1, ..
UserPathMapping(n) ==
    [k \in 1..n |-> <<InputPath(k), <<"o", "/", "d">> \o Str(k - 1)>>]

\* get_executions_chunks called on a user mapping, as the tests do; at most
\* one of the files cannot be copied, or the output directory cannot be made
InitChunks ==
    /\ NoStore
    /\ \E n \in 0..MaxItems :
          /\ sort_mapping = UserPathMapping(n)
          /\ broken \in {{}} \cup {{InputPath(k)} : k \in 1..n} \cup {{<<"o">>}}
    /\ number_of_chunks \in 1..MaxChunks
    /\ cli = [pattern |-> "", output_dir_exists |-> FALSE, confirmed |-> FALSE]
    /\ chunks = <<>>
    /\ executed = 0
    /\ copies = <<>>
    /\ pattern = <<>>
    /\ pattern_string = <<>>
    /\ root_path = <<>>
    /\ check_path_lengths = TRUE
    /\ paths = <<>>
    /\ files = <<>>
    /\ mapped = <<>>
    /\ nodes = EmptyTree
    /\ data = <<>>
    /\ pc = "chunk"
    /\ outcome = "none"

\* chunks = mapper.get_executions_chunks(mapping, number_of_chunks)
GetExecutionsChunks ==
    /\ pc = "chunk"
    /\ chunks' = get_executions_chunks(sort_mapping, number_of_chunks)
    /\ pc' = "execute"
    /\ UNCHANGED <<pattern, check_path_lengths, paths, files, mapped, nodes, data, outcome,
                   patternVars, storeVars, threadVars,
                   cli, number_of_chunks, sort_mapping, executed, copies,
                   broken>>

\* chunk.execute() of the next chunk in "for chunk in chunks"
ExecuteChunk ==
    /\ pc = "execute"
    /\ executed < Len(chunks)
    /\ LET r == ExecuteMapping(chunks[executed + 1], 1, copies)
       IN  /\ copies' = r.copies
           /\ executed' = executed + 1
           /\ IF r.raised
              THEN pc' = "finished" /\ outcome' = "FolderMapperException"
              ELSE /\ pc' = IF executed + 1 = Len(chunks) THEN "finished" ELSE "execute"
                   /\ outcome' = outcome
    /\ UNCHANGED <<pattern, check_path_lengths, paths, files, mapped, nodes, data,
                   patternVars, storeVars, threadVars,
                   cli, number_of_chunks, sort_mapping, chunks, broken>>

NextChunks == GetExecutionsChunks \/ ExecuteChunk

SpecChunks == InitChunks /\ [][NextChunks]_vars

(***************************************************************************)
(* The chunks run as threads: each makes the makedirs and copyfile calls   *)
(* of its execute_mapping in order, the calls of different chunks in any   *)
(* order.  The file system is what the calls made so far leave behind.     *)
(***************************************************************************)
\* the calls of execute_mapping(mapping), in order
CallsOf(mapping) ==
    [k \in 1..(2 * Len(mapping)) |->
        IF k % 2 = 1
        THEN [call |-> "makedirs", source |-> <<>>,
              destination |-> Parent(mapping[(k + 1) \div 2][2])]
        ELSE [call |-> "copyfile", source |-> mapping[k \div 2][1],
              destination |-> mapping[k \div 2][2]]]

\* a relative path and the folders above it
Ancestors(p) ==
    {SubSeq(p, 1, i - 1) : i \in {k \in 2..Len(p) : p[k] = "/"}} \cup {p}

\* the file system before any call: the input files, each holding its own
\* contents, and no folder
InputFiles(mapping) ==
    [dirs |-> {}, files |-> {<<mapping[i][1], mapping[i][1]>> : i \in 1..Len(mapping)}]

\* the contents of a file
ContentOf(fs, path) == (CHOOSE w \in fs.files : w[1] = path)[2]

\* the OSError of os.makedirs(path, exist_ok=True) when the path or a folder
\* above it is a file, and of shutil.copyfile when the destination is a
\* folder or the source is missing
CallRaises(fs, c) ==
    IF c.call = "makedirs"
    THEN \E a \in Ancestors(c.destination) : \E w \in fs.files : w[1] = a
    ELSE \/ c.destination \in fs.dirs
         \/ ~\E w \in fs.files : w[1] = c.source

\* the file system after a call that did not raise
AfterCall(fs, c) ==
    IF c.call = "makedirs"
    THEN [fs EXCEPT !.dirs = @ \cup Ancestors(c.destination)]
    ELSE [fs EXCEPT !.files = {w \in @ : w[1] # c.destination}
                                 \cup {<<c.destination, ContentOf(fs, c.source)>>}]

RECURSIVE FileSystem(_, _, _)
\* the file system after the calls of log from call i on
FileSystem(log, i, fs) ==
    IF i > Len(log) THEN fs ELSE FileSystem(log, i + 1, AfterCall(fs, log[i]))

RECURSIVE ExecuteInOrder(_, _, _)
\* "for chunk in chunks: chunk.execute()": the calls one after the other,
\* up to the first that raises
ExecuteInOrder(calls, i, fs) ==
    IF i > Len(calls) \/ CallRaises(fs, calls[i]) THEN fs
    ELSE ExecuteInOrder(calls, i + 1, AfterCall(fs, calls[i]))

\* destinations under one output folder, one of them inside another, and
\* one that is the name of an input file
ThreadDestinations ==
    {<<"o", "/", "a">>, <<"o", "/", "b">>, <<"o", "/", "a", "/", "b">>, InputPath(2)}

\* what FullPathMapper.map checks before it returns a mapping
PassedValidation(flat) == GetOverlapping(flat) = <<>> /\ ~MapsOntoInput(flat)

InitThreads ==
    /\ \E n \in 0..MaxThreadItems :
          /\ sort_mapping \in {flat \in [1..n -> {<<InputPath(k), d>> :
                                                     k \in 1..n, d \in ThreadDestinations}] :
                                  /\ \A k \in 1..n : flat[k][1] = InputPath(k)
                                  /\ PassedValidation(flat)}
    /\ number_of_chunks \in 1..MaxChunks
    /\ cli = [pattern |-> "", output_dir_exists |-> FALSE, confirmed |-> TRUE]
    /\ chunks = <<>>
    /\ chunk_pc = <<>>
    /\ executed = 0
    /\ copies = <<>>
    /\ broken = {}
    /\ store = <<>>
    /\ config_file = [exists |-> FALSE, items |-> <<>>]
    /\ pattern = <<>>
    /\ pattern_string = <<>>
    /\ root_path = <<>>
    /\ check_path_lengths = TRUE
    /\ paths = <<>>
    /\ files = <<>>
    /\ mapped = <<>>
    /\ nodes = EmptyTree
    /\ data = <<>>
    /\ pc = "chunk"
    /\ outcome = "none"

\* chunks = mapper.get_executions_chunks(mapping, number_of_chunks), each
\* chunk then handed to a thread of its own
StartThreads ==
    /\ pc = "chunk"
    /\ chunks' = get_executions_chunks(sort_mapping, number_of_chunks)
    /\ chunk_pc' = [c \in 1..number_of_chunks |-> [calls |-> 0, raised |-> FALSE]]
    /\ pc' = "threads"
    /\ UNCHANGED <<pattern, check_path_lengths, paths, files, mapped, nodes, data, outcome,
                   patternVars, cli, number_of_chunks, sort_mapping, executed, copies,
                   broken, storeVars>>

\* the next call of the execute_mapping of one chunk; an OSError ends that
\* chunk with FolderMapperException
ThreadStep ==
    /\ pc = "threads"
    /\ \E c \in 1..Len(chunks) :
         LET calls == CallsOf(chunks[c])
             k == chunk_pc[c].calls + 1
             fs == FileSystem(copies, 1, InputFiles(sort_mapping))
         IN  /\ ~chunk_pc[c].raised
             /\ k <= Len(calls)
             /\ IF CallRaises(fs, calls[k])
                THEN /\ chunk_pc' = [chunk_pc EXCEPT ![c].raised = TRUE]
                     /\ outcome' = "FolderMapperException"
                     /\ copies' = copies
                ELSE /\ chunk_pc' = [chunk_pc EXCEPT ![c].calls = k]
                     /\ outcome' = outcome
                     /\ copies' = Append(copies, calls[k])
    /\ UNCHANGED <<pattern, check_path_lengths, paths, files, mapped, nodes, data, pc,
                   patternVars, cli, number_of_chunks, sort_mapping, chunks, executed,
                   broken, storeVars>>

NextThreads == StartThreads \/ ThreadStep

SpecThreads == InitThreads /\ [][NextThreads]_vars

(***************************************************************************)
(* The sort command (trialbureautools/cli/dicomsort.py).                   *)
(***************************************************************************)
\* self.pattern_list: key -> pattern text
pattern_list ==
    <<<<"silly", TextSilly>>, <<"count", TextFileCount>>,
      <<"folders", TextFolderCount>>, <<"long", TextLong>>>>

\* number_of_chunks of the sort command
SORT_CHUNKS == 11

\* the files of the input folder: two patients, a file without a study
\* description, a file with a long name and a file that is not DICOM
SortFiles ==
    {[readable |-> TRUE,
      ds |-> [NoDataset EXCEPT !["PatientID"] = <<"x">>,
                               !["StudyDescription"] = <<"p">>,
                               !["SeriesDescription"] = <<"y">>,
                               !["SOPInstanceUID"] = <<>>]],
     [readable |-> TRUE,
      ds |-> [NoDataset EXCEPT !["PatientID"] = <<"x", "0">>,
                               !["SeriesDescription"] = <<"1", "y">>,
                               !["SOPInstanceUID"] = LongValue]],
     [readable |-> FALSE, ds |-> NoDataset]}

\* a check of the pattern key only
SortArgumentsPatternOnly(key, output_dir_exists) ==
    IF ~DictHas(pattern_list, key) THEN "BadParameter" ELSE "ok"

\* lines 167-171 of sort: the checks of the pattern key and the output dir
SortArguments(key, output_dir_exists) ==
    IF ~DictHas(pattern_list, key) THEN "BadParameter"
    ELSE IF output_dir_exists THEN "BadParameter"
    ELSE "ok"

InitSort ==
    /\ NoStore
    /\ cli \in [pattern : {pattern_list[i][1] : i \in 1..Len(pattern_list)} \cup {"test"},
                 output_dir_exists : BOOLEAN, confirmed : {FALSE}]
    /\ \E n \in 0..MaxFiles : files \in [1..n -> SortFiles]
    /\ paths = [i \in 1..Len(files) |-> InputPath(i)]
    /\ broken \in {{}} \cup {{paths[k]} : k \in 1..Len(paths)}
    /\ root_path = <<"/", "r">>
    /\ check_path_lengths = TRUE
    /\ number_of_chunks = SORT_CHUNKS
    /\ pattern_string = <<>>
    /\ pattern = <<>>
    /\ sort_mapping = <<>>
    /\ chunks = <<>>
    /\ executed = 0
    /\ copies = <<>>
    /\ mapped = <<>>
    /\ nodes = EmptyTree
    /\ data = <<>>
    /\ pc = "sort"
    /\ outcome = "none"

\* sort, up to the call of generate_mapping: a pattern key that is not known
\* or an output directory that exists raises BadParameter
Sort ==
    /\ pc = "sort"
    /\ IF SortArguments(cli.pattern, cli.output_dir_exists) = "ok"
       THEN /\ pattern_string' = DictGet(pattern_list, cli.pattern)
            /\ pc' = "init"
            /\ outcome' = outcome
       ELSE /\ pattern_string' = pattern_string
            /\ pc' = "finished"
            /\ outcome' = "BadParameter"
    /\ UNCHANGED <<pattern, check_path_lengths, paths, files, mapped, nodes, data,
                   root_path, sortVars, storeVars, threadVars>>

\* the exceptions generate_mapping turns into FolderMapperException
MappingExceptions ==
    {"OverlappingFilePathException", "UnsafeMappingException",
     "PathTooLongForWindowsException"}

\* sort, after FullPathMapper.map: a mapping error is caught, the UsageError
\* made for it is not raised and len(mapping) fails on the unbound name; a
\* mapping returned is flattened and, if the user confirms, cut into chunks
SortMapped ==
    /\ pc = "done"
    /\ outcome \in MappingExceptions \cup {"returned"}
    /\ IF outcome \in MappingExceptions
       THEN /\ outcome' = "UnboundLocalError"
            /\ pc' = "finished"
            /\ UNCHANGED <<cli, sort_mapping, chunks>>
       ELSE /\ sort_mapping' = TreeFlatDict(nodes, data)
            /\ outcome' = outcome
            /\ \E answer \in BOOLEAN :
                  /\ cli' = [cli EXCEPT !.confirmed = answer]
                  /\ IF answer
                     THEN /\ chunks' = get_executions_chunks(sort_mapping', number_of_chunks)
                          /\ pc' = "execute"
                     ELSE /\ chunks' = chunks
                          /\ pc' = "finished"
    /\ UNCHANGED <<pattern, check_path_lengths, paths, files, mapped, nodes, data,
                   patternVars, storeVars, threadVars,
                   number_of_chunks, executed, copies, broken>>

NextSort ==
    \/ Sort
    \/ FullPathMapperInit
    \/ StraightMap
    \/ AsTree
    \/ ApplyCount
    \/ Validate
    \/ SortMapped
    \/ ExecuteChunk

SpecSort == InitSort /\ [][NextSort]_vars

(***************************************************************************)
(* The pattern store of the command line (trialbureautools/cli/            *)
(* dicomsort.py): DicomPathPatterns, kept in a YAML file.                  *)
(***************************************************************************)
\* "(0010,0020)/(0008,1030)-(0008,0050)/(0008,103e)-(0008,0060)-(0020,0011)/(count:SOPInstanceUID)"
TextIdis ==
    <<"(", "0", "0", "1", "0", ",", "0", "0", "2", "0", ")", "/", "(", "0",
      "0", "0", "8", ",", "1", "0", "3", "0", ")", "-", "(", "0", "0", "0",
      "8", ",", "0", "0", "5", "0", ")", "/", "(", "0", "0", "0", "8", ",",
      "1", "0", "3", "e", ")", "-", "(", "0", "0", "0", "8", ",", "0", "0",
      "6", "0", ")", "-", "(", "0", "0", "2", "0", ",", "0", "0", "1", "1",
      ")", "/", "(", "c", "o", "u", "n", "t", ":", "S", "O", "P", "I", "n",
      "s", "t", "a", "n", "c", "e", "U", "I", "D", ")">>
\* "(0010,0020)/(0008,1030)-(0008,0050)/(0008,0020)/(0008,103e)-(0008,0060)-(0020,0011)/(count:SOPInstanceUID)"
TextNucmed ==
    <<"(", "0", "0", "1", "0", ",", "0", "0", "2", "0", ")", "/", "(", "0",
      "0", "0", "8", ",", "1", "0", "3", "0", ")", "-", "(", "0", "0", "0",
      "8", ",", "0", "0", "5", "0", ")", "/", "(", "0", "0", "0", "8", ",",
      "0", "0", "2", "0", ")", "/", "(", "0", "0", "0", "8", ",", "1", "0",
      "3", "e", ")", "-", "(", "0", "0", "0", "8", ",", "0", "0", "6", "0",
      ")", "-", "(", "0", "0", "2", "0", ",", "0", "0", "1", "1", ")", "/",
      "(", "c", "o", "u", "n", "t", ":", "S", "O", "P", "I", "n", "s", "t",
      "a", "n", "c", "e", "U", "I", "D", ")">>
\* "/(PatientID)/somepath/"
TextTest ==
    <<"/", "(", "P", "a", "t", "i", "e", "n", "t", "I", "D", ")", "/", "s",
      "o", "m", "e", "p", "a", "t", "h", "/">>
\* "(count:NoTag)"
TextNoTag ==
    <<"(", "c", "o", "u", "n", "t", ":", "N", "o", "T", "a", "g", ")">>

\* DefaultPatternsList.default_patterns
default_patterns == <<<<"idis", TextIdis>>, <<"nucmed", TextNucmed>>>>

\* the keys of the commands, in the order in which yaml.dump sorts them
StoreKeys == <<"idis", "nucmed", "test">>

\* the pattern strings of the commands
StorePatternStrings == {TextIdis, TextTest, TextNoTag, <<"(">>}

\* no configuration file
NoFile == [exists |-> FALSE, items |-> <<>>]

\* SerializableDicomPathPattern(pattern_string): the object, or that
\* DicomPathPatternException was raised
SerializableDicomPathPattern(text) ==
    LET parsed == parse(text)
    IN  [raised |-> parsed.raised,
         object |-> [pattern_string |-> text, elements |-> parsed.transformed]]

RECURSIVE DicomPathPatterns(_, _, _)
\* DicomPathPatterns(flat_dict) from item i on: the object dict, or that a
\* pattern string raised
DicomPathPatterns(flat_dict, i, object_dict) ==
    IF i > Len(flat_dict) THEN [raised |-> FALSE, data |-> object_dict]
    ELSE LET made == SerializableDicomPathPattern(flat_dict[i][2])
         IN  IF made.raised THEN [raised |-> TRUE, data |-> <<>>]
             ELSE DicomPathPatterns(flat_dict, i + 1,
                                    DictSet(object_dict, flat_dict[i][1], made.object))

\* DicomPathPatterns.as_flat_dict
as_flat_dict(patterns) ==
    [i \in 1..Len(patterns) |-> <<patterns[i][1], patterns[i][2].pattern_string>>]

\* yaml.dump(flat_dict, f, default_flow_style=False): one "key: value" line
\* per item, the keys sorted
yaml_dump(flat_dict) ==
    LET present == SelectSeq(StoreKeys, LAMBDA k : DictHas(flat_dict, k))
    IN  [i \in 1..Len(present) |-> <<present[i], DictGet(flat_dict, present[i])>>]

\* DicomPathPatterns.save(path)
save(patterns) == [exists |-> TRUE, items |-> yaml_dump(as_flat_dict(patterns))]

\* DicomPathPatterns.load(path): yaml.safe_load gives the items in the order
\* of the file
load(file) == DicomPathPatterns(file.items, 1, <<>>)

\* an add that keeps whatever string it is given
AddPatternUnparsed(patterns, key, text) ==
    [raised |-> FALSE,
     data |-> DictSet(patterns, key,
                      [pattern_string |-> text, elements |-> parse(text).transformed])]

\* DicomPathPatterns.add_pattern(key, pattern_string)
add_pattern(patterns, key, text) ==
    LET made == SerializableDicomPathPattern(text)
    IN  IF made.raised THEN [raised |-> TRUE, data |-> patterns]
        ELSE [raised |-> FALSE, data |-> DictSet(patterns, key, made.object)]

\* UserDict.pop(key) of a key that is there
DictPop(d, key) == SelectSeq(d, LAMBDA kv : kv[1] # key)

InitStore ==
    /\ store = <<>>
    /\ config_file = NoFile
    /\ chunk_pc = <<>>
    /\ cli = [command |-> "", key |-> "", pattern_string |-> <<>>]
    /\ number_of_chunks = 0
    /\ sort_mapping = <<>>
    /\ chunks = <<>>
    /\ executed = 0
    /\ copies = <<>>
    /\ broken = {}
    /\ pattern = <<>>
    /\ pattern_string = <<>>
    /\ root_path = <<>>
    /\ check_path_lengths = TRUE
    /\ paths = <<>>
    /\ files = <<>>
    /\ mapped = <<>>
    /\ nodes = EmptyTree
    /\ data = <<>>
    /\ pc = "new"
    /\ outcome = "none"

\* DicomSortCLI(configuration_file): a file that does not exist is written
\* with the default patterns, then the patterns are loaded from the file
DicomSortCLIInit ==
    /\ pc = "new"
    /\ config_file' = IF config_file.exists THEN config_file
                      ELSE save(DicomPathPatterns(default_patterns, 1, <<>>).data)
    /\ store' = load(config_file').data
    /\ pc' = "patterns"
    /\ UNCHANGED <<pattern, check_path_lengths, paths, files, mapped, nodes, data, outcome,
                   patternVars, sortVars, threadVars>>

\* the command "patterns add <key> <pattern_string>"
PatternsAdd ==
    /\ pc = "patterns"
    /\ \E key \in {StoreKeys[i] : i \in 1..Len(StoreKeys)}, text \in StorePatternStrings :
         \E added \in {add_pattern(store, key, text)} :
             /\ cli' = [command |-> "add", key |-> key, pattern_string |-> text]
             /\ IF added.raised
                THEN /\ outcome' = "DicomPathPatternException"
                     /\ UNCHANGED <<store, config_file>>
                ELSE /\ store' = added.data
                     /\ config_file' = save(store')
                     /\ outcome' = "saved"
    /\ UNCHANGED <<pattern, check_path_lengths, paths, files, mapped, nodes, data, pc,
                   patternVars, number_of_chunks, sort_mapping, chunks, executed, copies,
                   broken, threadVars>>

\* the command "patterns remove <key>"
PatternsRemove ==
    /\ pc = "patterns"
    /\ \E key \in {StoreKeys[i] : i \in 1..Len(StoreKeys)} :
         /\ cli' = [command |-> "remove", key |-> key, pattern_string |-> <<>>]
         /\ IF DictHas(store, key)
            THEN /\ store' = DictPop(store, key)
                 /\ config_file' = save(store')
                 /\ outcome' = "saved"
            ELSE /\ outcome' = "KeyError"
                 /\ UNCHANGED <<store, config_file>>
    /\ UNCHANGED <<pattern, check_path_lengths, paths, files, mapped, nodes, data, pc,
                   patternVars, number_of_chunks, sort_mapping, chunks, executed, copies,
                   broken, threadVars>>

NextStore == DicomSortCLIInit \/ PatternsAdd \/ PatternsRemove

SpecStore == InitStore /\ [][NextStore]_vars

(***************************************************************************)
(* Properties.                                                             *)
(***************************************************************************)
Destinations(flat) == {flat[i][2] : i \in 1..Len(flat)}
KeySet(d) == {d[i][1] : i \in 1..Len(d)}
Injective(flat) ==
    \A i, j \in 1..Len(flat) : i # j => flat[i][2] # flat[j][2]

\* as_tree has been called and the counting pass has not run
AsTreeCalled == pc = "tree" \/ outcome = "IndexError"

\* C1: once as_tree has run on a straight mapping, and before the counting
\* pass, the tree mapping has the keys of the straight mapping and flattens
\* every item to the destination the straight mapping flattens it to.
C1_TreeEquivalence ==
    AsTreeCalled =>
        /\ KeySet(data) = KeySet(mapped)
        /\ \A k \in KeySet(mapped) :
              DictHas(data, k) =>
                 DictGet(TreeFlatDict(nodes, data), k)
                     = DictGet(StraightFlatDict(mapped), k)

\* C2: after any sequence of add calls from an empty tree, no node has two
\* children with the same flattened string.
C2_NoDuplicateChildren ==
    \A n \in 1..Len(nodes) :
        \A i, j \in 1..Len(nodes[n].children) :
            i # j => NodeFlatten(nodes, nodes[n].children[i])
                        # NodeFlatten(nodes, nodes[n].children[j])

\* an add has met an existing child of the same name built from other
\* elements, next to a sibling of another name
C2_Witness ==
    /\ \E n \in 1..Len(nodes) : Len(nodes[n].children) >= 2
    /\ \E i, j \in 1..Len(data) :
          /\ i # j
          /\ data[i][2] = data[j][2]
          /\ DictGet(mapped, data[i][1]) # DictGet(mapped, data[j][1])

\* the chain of nodes from below the root to the terminal node of an item
Chain(k) == Tail(GetAllParentElements(nodes, DictGet(data, k)))

SamePrefix(p, q, k) == \A m \in 1..k : Flatten(p[m]) = Flatten(q[m])

\* C3: two items added to the tree whose tentative paths flatten to the same
\* names in their first k units reach the same k nodes for those units; each
\* item's chain has one node per unit.
C3_PrefixSharing ==
    \A a, b \in KeySet(data) :
        LET p == DictGet(mapped, a)
            q == DictGet(mapped, b)
        IN  /\ Len(Chain(a)) = Len(p)
            /\ \A k \in 1..Len(p) :
                  (k <= Len(q) /\ SamePrefix(p, q, k)) =>
                      SubSeq(Chain(a), 1, k) = SubSeq(Chain(b), 1, k)

\* two items of two units share the first name, built from different
\* elements, and differ in the second
C3_Witness ==
    \E a, b \in KeySet(data) :
        LET p == DictGet(mapped, a)
            q == DictGet(mapped, b)
        IN  /\ Len(p) = 2 /\ Len(q) = 2
            /\ p[1] # q[1] /\ Flatten(p[1]) = Flatten(q[1])
            /\ Flatten(p[2]) # Flatten(q[2])
            /\ Chain(a)[1] = Chain(b)[1]
            /\ Chain(a)[2] # Chain(b)[2]

\* the number a string of decimal digits writes; -1 for any other string
DigitValue(c) ==
    IF \E d \in 1..10 : DigitChars[d] = c
    THEN (CHOOSE d \in 1..10 : DigitChars[d] = c) - 1
    ELSE -1

RECURSIVE IntOf(_)
IntOf(s) ==
    IF s = <<>> \/ DigitValue(s[Len(s)]) < 0 THEN -1
    ELSE IF Len(s) = 1 THEN DigitValue(s[1])
    ELSE LET high == IntOf(SubSeq(s, 1, Len(s) - 1))
         IN  IF high < 0 THEN -1 ELSE 10 * high + DigitValue(s[Len(s)])

ValuesOf(elementlist) ==
    {elementlist[k].resolved_value : k \in 1..Len(elementlist)}

\* the positional groups of the children of node n that the pass renumbers
CountableGroups(ns, n) ==
    {idx \in 1..MaxElements(ns, n) : ElementCount(ElementList(ns, n, idx)[1])}

CountStep == pc = "tree" /\ pc' = "counted"

C5_WidthOfDistinctValues ==
    [][CountStep =>
        \A n \in 1..Len(nodes) : \A idx \in CountableGroups(nodes, n) :
            LET N == Cardinality(ValuesOf(ElementList(nodes, n, idx)))
                after == ElementList(nodes', n, idx)
            IN  \A k \in 1..Len(after) :
                   Len(after[k].resolved_value) = Len(Str(N - 1))]_vars

\* C5 as amended: every index written into a countable group has as many
\* characters as the number of members of the group (the children of the
\* node that have the position) has decimal digits, the same for all members.
C5_WidthOfGroupSize ==
    [][CountStep =>
        \A n \in 1..Len(nodes) : \A idx \in CountableGroups(nodes, n) :
            LET M == Len(ElementList(nodes, n, idx))
                after == ElementList(nodes', n, idx)
            IN  \A k \in 1..Len(after) :
                   Len(after[k].resolved_value) = Len(Str(M))]_vars

\* a counted group of ten or more members, written with two characters
C5_Witness ==
    /\ pc = "counted"
    /\ \E n \in 1..Len(nodes) : \E idx \in CountableGroups(nodes, n) :
          /\ Len(ElementList(nodes, n, idx)) >= 10
          /\ \A k \in 1..Len(ElementList(nodes, n, idx)) :
                Len(ElementList(nodes, n, idx)[k].resolved_value) = 2

\* C6: two items whose flattened destinations differ before the counting
\* pass have different flattened destinations after it.
C6_CountingKeepsDistinct ==
    [][CountStep =>
        \A i, j \in 1..Len(data) :
            TreeFlatDict(nodes, data)[i][2] # TreeFlatDict(nodes, data)[j][2]
                => TreeFlatDict(nodes', data')[i][2]
                      # TreeFlatDict(nodes', data')[j][2]]_vars

\* the original paths that flat sends to destination d, in the order of flat
OriginalsOf(flat, d) ==
    LET hits == SelectSeq(flat, LAMBDA xy : xy[2] = d)
    IN  [k \in 1..Len(hits) |-> hits[k][1]]

\* get_overlapping(flat) names exactly the destinations of two or more items,
\* each once and with all the original paths that map to it
OverlapReportExact(flat) ==
    LET overlapping == GetOverlapping(flat)
    IN  /\ KeySet(overlapping)
              = {d \in Destinations(flat) : Len(OriginalsOf(flat, d)) >= 2}
        /\ \A a, b \in 1..Len(overlapping) :
              a # b => overlapping[a][1] # overlapping[b][1]
        /\ \A a \in 1..Len(overlapping) :
              overlapping[a][2] = OriginalsOf(flat, overlapping[a][1])
        /\ (overlapping = <<>>) <=> Injective(flat)

\* a tree mapping has been built and map() has not failed while building it
TreeBuilt == pc \in {"tree", "counted", "done"} /\ outcome # "IndexError"

\* C7: get_overlapping, on the straight mapping and on the tree mapping
\* before and after the counting pass, returns exactly the destinations that
\* two or more items map to, each with exactly the list of the original paths
\* mapping to it, and is empty iff the flattened mapping is injective.
C7_OverlapReportExact ==
    /\ OverlapReportExact(StraightFlatDict(mapped))
    /\ TreeBuilt => OverlapReportExact(TreeFlatDict(nodes, data))

\* after the counting pass two items collide and the report names them both
C7_Witness ==
    /\ pc = "counted"
    /\ Len(data) = 2
    /\ Len(GetOverlapping(TreeFlatDict(nodes, data))) = 1
    /\ GetOverlapping(TreeFlatDict(nodes, data))[1][2] = <<InputPath(1), InputPath(2)>>

\* map() has finished its checks on the counted tree
MapChecked == pc = "done" /\ outcome # "IndexError"

\* C8: when map() has checked the counted tree, it has raised
\* OverlappingFilePathException if two mapped items have the same final
\* destination, and if it has returned the tree then the final destinations
\* of the mapped items are pairwise distinct.
C8_OverlapRaises ==
    MapChecked =>
        LET flat == TreeFlatDict(nodes, data)
        IN  /\ ~Injective(flat) => outcome = "OverlappingFilePathException"
            /\ outcome = "returned" => Injective(flat)

\* two items that differed before the counting pass collide after it, and
\* map() raises
C8_Witness ==
    /\ MapChecked
    /\ outcome = "OverlappingFilePathException"
    /\ Injective(StraightFlatDict(mapped))
    /\ ~Injective(TreeFlatDict(nodes, data))

\* C9: when map() has checked the counted tree and a final destination equals
\* one of the input paths passed to map (mapped or excluded as unreadable),
\* map() has raised (UnsafeMappingException, or the overlap error checked
\* before it); when it has returned, no destination equals any input path.
C9_UnsafeRaises ==
    MapChecked =>
        LET flat == TreeFlatDict(nodes, data)
            unsafe == \E i \in 1..Len(flat), k \in 1..Len(paths) :
                          flat[i][2] = paths[k]
        IN  /\ unsafe => outcome \in {"UnsafeMappingException",
                                      "OverlappingFilePathException"}
            /\ outcome = "returned" => ~unsafe

\* C10: when map() has checked the counted tree and found no overlap and no
\* destination equal to a mapped input path, then with check_path_lengths it
\* has raised PathTooLongForWindowsException iff some final destination is
\* longer than 260 characters, and without check_path_lengths it has not
\* raised it.
C10_PathLength ==
    MapChecked =>
        LET flat == TreeFlatDict(nodes, data)
            clean == /\ Injective(flat)
                     /\ \A i, j \in 1..Len(flat) : flat[i][2] # flat[j][1]
            toolong == \E i \in 1..Len(flat) : Len(flat[i][2]) > 260
        IN  /\ (clean /\ check_path_lengths) =>
                  (outcome = "PathTooLongForWindowsException" <=> toolong)
            /\ ~check_path_lengths => outcome # "PathTooLongForWindowsException"

\* a destination of exactly 260 characters is returned with the check enabled
C10_Witness ==
    /\ MapChecked
    /\ check_path_lengths
    /\ outcome = "returned"
    /\ \E i \in 1..Len(data) : Len(TreeFlatDict(nodes, data)[i][2]) = 260

\* the input paths whose file pydicom reads
ReadablePaths == {paths[i] : i \in {k \in 1..Len(paths) : files[k].readable}}

ResolvedOf(units) == Concat(units)

\* the elements of a pattern that are not dropped as separators
NonSeparators(pat) == SelectSeq(pat, LAMBDA e : e.type # "FolderSeparator")

IsTagElement(e) == e.type \in {"DicomTag", "DicomTagName"}

\* C12: in the tentative path generated for a readable file, every pattern
\* element has one resolved element (the separators, which the grouping
\* drops, aside), and at the position of every tag element whose tag the file
\* does not hold stands the value "UNKNOWN" with no originating element and a
\* count predicate that is false.
C12_SentinelSubstitution ==
    pc = "mapped" =>
        \A i \in 1..Len(paths) :
            files[i].readable =>
                LET resolved == ResolvedOf(DictGet(mapped, paths[i]))
                    kept == NonSeparators(pattern)
                IN  /\ Len(resolved) = Len(kept)
                    /\ \A k \in 1..Len(kept) :
                          (IsTagElement(kept[k]) /\ files[i].ds[kept[k].tag] = Absent)
                              => /\ resolved[k].resolved_value = UNKNOWN_ELEMENT_NAME
                                 /\ resolved[k].path_element = None
                                 /\ ~ElementCount(resolved[k])

\* a file without the tag of a counting element is mapped to the sentinel
C12_Witness ==
    /\ pc = "mapped"
    /\ pattern = PatFileCount
    /\ \E i \in 1..Len(paths) :
          /\ files[i].readable
          /\ files[i].ds["StudyDescription"] = Absent
          /\ ResolvedOf(DictGet(mapped, paths[i]))[2]
                = ResolvedPathElement(None, UNKNOWN_ELEMENT_NAME)

\* C17: a step of as_tree and a step of apply_count leave the straight
\* mapping as it was: every item keeps all its units and as_flat_dict gives
\* the same dict before and after.
C17_DeepCopyDiscipline ==
    [][(pc \in {"mapped", "tree"}) =>
          /\ DictKeys(mapped') = DictKeys(mapped)
          /\ \A i \in 1..Len(mapped) : Len(mapped'[i][2]) = Len(mapped[i][2])
          /\ StraightFlatDict(mapped') = StraightFlatDict(mapped)]_vars

\* the counting pass has renamed an item in the tree and the straight
\* mapping still flattens it to its uncounted name
C17_Witness ==
    /\ pc = "counted"
    /\ \E i \in 1..Len(data) :
          /\ mapped[i][1] = data[i][1]
          /\ Len(mapped[i][2]) >= 1
          /\ TreeFlatDict(nodes, data)[i][2] # StraightFlatDict(mapped)[i][2]

\* the pattern text has been parsed: FullPathMapper.__init__ has returned
PatternParsed == pc # "init" /\ outcome # "DicomPathPatternException"

IsStructural(e) == e.type \in {"FolderSeparator", "RootSlash"}

\* the number of non-empty segments of a parsed pattern: the runs of elements
\* between its separators (the root slash and the folder separators)
Segments(pat) ==
    Cardinality({k \in 1..Len(pat) :
                    ~IsStructural(pat[k]) /\ (k = 1 \/ IsStructural(pat[k - 1]))})

\* C13: every tentative path generated from a parsed pattern has as many
\* units as the pattern has non-empty separator-delimited segments.
C13_GroupingInvariant ==
    (PatternParsed /\ pc = "mapped") =>
        \A i \in 1..Len(mapped) : Len(mapped[i][2]) = Segments(pattern)

\* C14 as stated: no unit of a generated tentative path is empty or holds a
\* resolved element that originates from a FolderSeparator or a RootSlash.
C14_SeparatorsStructuralOnly ==
    (PatternParsed /\ pc = "mapped") =>
        \A i \in 1..Len(mapped) : \A u \in 1..Len(mapped[i][2]) :
            LET unit == mapped[i][2][u]
            IN  /\ unit # <<>>
                /\ \A k \in 1..Len(unit) : ~IsStructural(unit[k].path_element)

\* C14 as amended: no unit of a generated tentative path is empty or holds a
\* resolved element that originates from a FolderSeparator; an element that
\* originates from the RootSlash is the first element of the first unit, and
\* the first unit of a pattern with a root slash starts with it.
C14_FolderSeparatorsStructuralOnly ==
    (PatternParsed /\ pc = "mapped") =>
        \A i \in 1..Len(mapped) :
            /\ \A u \in 1..Len(mapped[i][2]) :
                  LET unit == mapped[i][2][u]
                  IN  /\ unit # <<>>
                      /\ \A k \in 1..Len(unit) :
                            /\ unit[k].path_element.type # "FolderSeparator"
                            /\ unit[k].path_element.type = "RootSlash" => (u = 1 /\ k = 1)
            /\ pattern[1].type = "RootSlash" =>
                  mapped[i][2][1][1].path_element.type = "RootSlash"

\* a pattern with a root slash and a folder separator: the root slash is in
\* the first unit of the generated path and the separator in none
C14_Witness ==
    /\ PatternParsed /\ pc = "mapped"
    /\ pattern[1].type = "RootSlash"
    /\ \E k \in 1..Len(pattern) : pattern[k].type = "FolderSeparator"
    /\ Len(mapped) >= 1
    /\ Len(mapped[1][2]) = 2
    /\ mapped[1][2][1][1].path_element.type = "RootSlash"

\* the text has a parenthesized run of letters, with or without the count
\* marker, that is no keyword of the dictionary
HasUnknownMnemonic(s) ==
    \E i, j \in 1..Len(s) :
        /\ s[i] = "(" /\ s[j] = ")"
        /\ LET from == IF HasPrefixAt(s, i + 1, COUNT_FLAG)
                       THEN i + 1 + Len(COUNT_FLAG) ELSE i + 1
               body == SubSeq(s, from, j - 1)
           IN  /\ from < j
               /\ \A k \in 1..Len(body) : body[k] \in LETTER
               /\ ~DictHas(keyword_dict, NameOf(body))

\* C15: once the pattern text has been handed to the parser, either parsing
\* has failed or every element of the parsed pattern is valid and every tag
\* code element has exactly the form of four hexadecimal digits, a comma and
\* four hexadecimal digits; a text with a parenthesized mnemonic that is no
\* known tag name has failed.
C15_ParseValidity ==
    pc # "init" =>
        /\ PatternParsed =>
              /\ pattern # <<>>
              /\ \A k \in 1..Len(pattern) :
                    /\ is_valid(pattern[k])
                    /\ pattern[k].type = "DicomTag" => IsTagCode(pattern[k].tag)
        /\ HasUnknownMnemonic(pattern_string) => outcome = "DicomPathPatternException"

\* a text with an unknown mnemonic in parentheses has been refused
C15_Witness ==
    /\ pc = "done"
    /\ outcome = "DicomPathPatternException"
    /\ root_path = <<>>
    /\ HasUnknownMnemonic(pattern_string)

\* the positions of the opening parentheses of a text, in order
Opens(s) == SortedSeq({i \in 1..Len(s) : s[i] = "("})

\* C16: in a parsed pattern the k-th tag element counts iff the k-th
\* reference of the text carries the marker "count:", whatever the other
\* references carry, and no literal or separator counts.
C16_CountMarkerLocality ==
    PatternParsed =>
        LET refs == SelectSeq(pattern, IsTagElement)
            opens == Opens(pattern_string)
        IN  /\ Len(refs) = Len(opens)
            /\ \A k \in 1..Len(refs) :
                  refs[k].count <=> HasPrefixAt(pattern_string, opens[k] + 1, COUNT_FLAG)
            /\ \A k \in 1..Len(pattern) : ~IsTagElement(pattern[k]) => ~pattern[k].count

\* a counting reference followed by one without the marker
C16_Witness ==
    /\ PatternParsed
    /\ Len(pattern) = 2
    /\ IsTagElement(pattern[1]) /\ pattern[1].count
    /\ IsTagElement(pattern[2]) /\ ~pattern[2].count

\* C18: when a FullPathMapper built with a root path has returned a mapping,
\* every destination of the mapping starts with the root path.
C18_RootContainment ==
    (pc = "done" /\ outcome = "returned" /\ root_path # <<>>) =>
        \A i \in 1..Len(data) :
            HasPrefixAt(TreeFlatDict(nodes, data)[i][2], 1, root_path)

\* the items of a flat mapping
ItemsOf(mapping) == {mapping[i] : i \in 1..Len(mapping)}

\* the copyfile calls made for an item
CopiesOf(item) ==
    SelectSeq(copies, LAMBDA c : /\ c.call = "copyfile"
                                 /\ c.source = item[1]
                                 /\ c.destination = item[2])

\* C19: get_executions_chunks returns number_of_chunks chunks that are
\* pairwise disjoint, together hold exactly the items of the mapping and
\* differ in size by at most one; when all chunks have been executed and no
\* copy has failed, every item of the mapping has been copied exactly once
\* and nothing else has.
C19_ChunkPartition ==
    pc \in {"execute", "finished"} =>
        /\ Len(chunks) = number_of_chunks
        /\ \A a, b \in 1..Len(chunks) :
              /\ a # b => ItemsOf(chunks[a]) \cap ItemsOf(chunks[b]) = {}
              /\ Len(chunks[a]) - Len(chunks[b]) <= 1
              /\ Cardinality(ItemsOf(chunks[a])) = Len(chunks[a])
        /\ UNION {ItemsOf(chunks[a]) : a \in 1..Len(chunks)} = ItemsOf(sort_mapping)
        /\ (pc = "finished" /\ outcome # "FolderMapperException") =>
              /\ executed = number_of_chunks
              /\ \A item \in ItemsOf(sort_mapping) : Len(CopiesOf(item)) = 1
              /\ Len(SelectSeq(copies, LAMBDA c : c.call = "copyfile")) = Len(sort_mapping)

\* more items than chunks, chunks of different sizes, all executed
C19_Witness ==
    /\ pc = "finished"
    /\ outcome # "FolderMapperException"
    /\ Len(sort_mapping) > number_of_chunks
    /\ number_of_chunks >= 2
    /\ \E a, b \in 1..Len(chunks) : Len(chunks[a]) # Len(chunks[b])
    /\ Len(copies) = 2 * Len(sort_mapping)

\* C20: in a sort run a makedirs or copyfile call has been made only if the
\* pattern key is known, the output directory did not exist, the mapping has
\* passed the checks of FullPathMapper.map (no overlap, no unsafe
\* destination, no path too long), the user has confirmed, and the call is
\* for an item of that mapping.
C20_NoCopyBeforeValidation ==
    copies # <<>> =>
        /\ DictHas(pattern_list, cli.pattern)
        /\ ~cli.output_dir_exists
        /\ cli.confirmed
        /\ outcome \in {"returned", "FolderMapperException"}
        /\ MapOutcome(nodes, data, TRUE) = "returned"
        /\ sort_mapping = TreeFlatDict(nodes, data)
        /\ \A k \in 1..Len(copies) :
              \E item \in ItemsOf(sort_mapping) :
                  \/ copies[k].call = "copyfile" /\ copies[k].source = item[1]
                                                /\ copies[k].destination = item[2]
                  \/ copies[k].call = "makedirs"
                        /\ copies[k].destination = Parent(item[2])

\* a confirmed sort of two files has copied both
C20_Witness ==
    /\ pc = "finished"
    /\ outcome = "returned"
    /\ cli.confirmed
    /\ executed = SORT_CHUNKS
    /\ Len(sort_mapping) = 2
    /\ Len(SelectSeq(copies, LAMBDA c : c.call = "copyfile")) = 2

\* some node has children with different numbers of resolved elements
ShapeMismatch(ns) ==
    \E n \in 1..Len(ns) : \E a, b \in 1..Len(ns[n].children) :
        Len(ns[ns[n].children[a]].path_elements)
            # Len(ns[ns[n].children[b]].path_elements)

\* C21: a counting pass over a tree in which some node has children with
\* different numbers of resolved elements ends with PathCountException.
C21_ShapeMismatchFatal ==
    [][(pc = "add" /\ pc' = "counted" /\ ShapeMismatch(nodes))
          => outcome' = "PathCountException"]_vars

\* the items of a mapping that execute_mapping cannot copy
FailingItems(mapping) ==
    {i \in 1..Len(mapping) :
        mapping[i][1] \in broken \/ Parent(mapping[i][2]) \in broken}

\* the first of them, or the length of the mapping plus one
FirstFailing(mapping) ==
    IF FailingItems(mapping) = {} THEN Len(mapping) + 1
    ELSE CHOOSE i \in FailingItems(mapping) : \A j \in FailingItems(mapping) : i <= j

ExecuteStep == pc = "execute" /\ executed' = executed + 1

\* C22: one call of execute_mapping adds to the calls made before it, for
\* every item before the first one that fails, in the order of the mapping,
\* a makedirs of the destination's parent directly followed by the copyfile
\* of the item; the item that fails adds at most its makedirs and nothing is
\* added for the items after it; the call raises FolderMapperException iff
\* some item fails, and no call follows it.
C22_CopyFailureHandling ==
    [][ExecuteStep =>
        LET mapping == chunks[executed + 1]
            first == FirstFailing(mapping)
            added == SubSeq(copies', Len(copies) + 1, Len(copies'))
        IN  /\ SubSeq(copies', 1, Len(copies)) = copies
            /\ \A i \in 1..(first - 1) :
                  /\ added[2 * i - 1] = [call |-> "makedirs", source |-> <<>>,
                                         destination |-> Parent(mapping[i][2])]
                  /\ added[2 * i] = [call |-> "copyfile", source |-> mapping[i][1],
                                     destination |-> mapping[i][2]]
            /\ IF first > Len(mapping)
               THEN /\ Len(added) = 2 * Len(mapping)
                    /\ outcome' # "FolderMapperException"
               ELSE /\ outcome' = "FolderMapperException"
                    /\ pc' = "finished"
                    /\ Len(added) \in {2 * (first - 1), 2 * first - 1}
                    /\ Len(added) = 2 * first - 1 =>
                          added[Len(added)].call = "makedirs"]_vars

\* a call that copied its first item and failed on its second, of three
C22_Witness ==
    /\ outcome = "FolderMapperException"
    /\ executed = 1
    /\ Len(chunks[1]) = 3
    /\ FirstFailing(chunks[1]) = 2
    /\ Len(SelectSeq(copies, LAMBDA c : c.call = "copyfile")) = 1
    /\ copies[2].source = chunks[1][1][1]

\* C23: after the construction of the command line and after every add and
\* remove command the configuration file exists, loads without an error, and
\* the store loaded from it has exactly the keys of the store in memory,
\* each with the same pattern string and the same elements; right after
\* construction these are the keys idis and nucmed; an add whose pattern
\* string does not parse and a remove of a key that is not in the store
\* change neither the store in memory nor the file.
C23_StorePersistence ==
    [][pc' = "patterns" =>
        /\ config_file'.exists
        /\ ~load(config_file').raised
        /\ ItemsOf(load(config_file').data) = ItemsOf(store')
        /\ pc = "new" => KeySet(store') = {"idis", "nucmed"}
        /\ cli'.command = "add" /\ parse(cli'.pattern_string).raised
              => UNCHANGED <<store, config_file>>
        /\ cli'.command = "remove" /\ ~DictHas(store, cli'.key)
              => UNCHANGED <<store, config_file>>]_vars

\* a key was added after one was removed, and an add that does not parse
\* came last
C23_Witness ==
    /\ pc = "patterns"
    /\ KeySet(store) = {"nucmed", "test"}
    /\ DictKeys(store) # DictKeys(load(config_file).data)
    /\ cli.command = "add"
    /\ outcome = "DicomPathPatternException"

C25_SiblingsStayDistinct ==
    pc = "counted" =>
        \A n \in 1..Len(nodes) : \A a, b \in 1..Len(nodes[n].children) :
            a # b => NodeFlatten(nodes, nodes[n].children[a])
                        # NodeFlatten(nodes, nodes[n].children[b])

RecountStep == pc = "done" /\ pc' = "recounted"

\* C27: a second call of apply_count on a counted tree numbers the values of
\* every countable group again: by a bijection of its N distinct values onto
\* 0..N-1, every value as wide as it was after the first call; which value
\* gets which index is again any order, so the values can differ from those
\* after the first call.
C27_SecondCountRenumbers ==
    [][RecountStep =>
        \A n \in 1..Len(nodes) : \A idx \in CountableGroups(nodes, n) :
            LET before == ElementList(nodes, n, idx)
                after == ElementList(nodes', n, idx)
                N == Cardinality(ValuesOf(before))
            IN  /\ Len(after) = Len(before)
                /\ \A a, b \in 1..Len(before) :
                      (before[a].resolved_value = before[b].resolved_value)
                          <=> (after[a].resolved_value = after[b].resolved_value)
                /\ {IntOf(after[k].resolved_value) : k \in 1..Len(after)} = 0..(N - 1)
                /\ \A k \in 1..Len(after) :
                      Len(after[k].resolved_value) = Len(before[k].resolved_value)]_vars

\* the second call has given an item another destination than it had after
\* the first
C27_Witness ==
    /\ pc = "recounted"
    /\ \E i \in 1..Len(data) : TreeFlatDict(nodes, data)[i][2] # sort_mapping[i][2]
    /\ \E n \in 1..Len(nodes) : \E idx \in CountableGroups(nodes, n) :
          ValuesOf(ElementList(nodes, n, idx)) = {<<"0">>, <<"1">>}

\* C28: a step of the counting pass keeps the number of nodes, every
\* node's parent and children, the number and the origin of every node's
\* elements, the resolved value of every element that is not in a countable
\* positional group of its parent, and the node every item ends in.
C28_CountingFrame ==
    [][CountStep =>
        /\ Len(nodes') = Len(nodes)
        /\ data' = data
        /\ \A c \in 1..Len(nodes) :
              /\ nodes'[c].parent = nodes[c].parent
              /\ nodes'[c].children = nodes[c].children
              /\ Len(nodes'[c].path_elements) = Len(nodes[c].path_elements)
              /\ \A idx \in 1..Len(nodes[c].path_elements) :
                    /\ nodes'[c].path_elements[idx].path_element
                          = nodes[c].path_elements[idx].path_element
                    /\ idx \notin CountableGroups(nodes, nodes[c].parent) =>
                          nodes'[c].path_elements[idx] = nodes[c].path_elements[idx]]_vars

\* after the pass: two nodes under one parent whose counted elements were
\* numbered and whose literal before them is as it was
C28_Witness ==
    /\ pc = "counted"
    /\ \E n \in 1..Len(nodes) :
          /\ Len(nodes[n].children) = 2
          /\ 2 \in CountableGroups(nodes, n)
          /\ ValuesOf(ElementList(nodes, n, 2)) = {<<"0">>, <<"1">>}
          /\ ValuesOf(ElementList(nodes, n, 1)) = {<<"f">>}

\* the orders in which the items of a straight mapping can be inserted
InsertionOrders(d) ==
    {[i \in 1..Len(d) |-> d[f[i]]] :
        f \in {g \in [1..Len(d) -> 1..Len(d)] :
                  \A a, b \in 1..Len(d) : a # b => g[a] # g[b]}}

\* how map() can end when the items are inserted in the order of d: one
\* outcome per numbering the counting pass can make
OutcomesOf(d) ==
    LET tree == AsTreeOf(d)
    IN  {MapOutcome(counted, tree.data, check_path_lengths) :
            counted \in ApplyCountAt(tree.nodes, Root)}

\* C29: once the items are mapped and the tree is built, map() can end in
\* one way only: every numbering the counting pass can choose and (for up to
\* MaxFiles items) every order of insertion give the same outcome.
C29_OutcomeDeterminism ==
    pc = "tree" =>
        Cardinality(UNION {OutcomesOf(d) :
                              d \in IF Len(mapped) <= MaxFiles THEN InsertionOrders(mapped)
                                                               ELSE {mapped}}) = 1

\* the number of units of a path generated from pat
UnitsOf(pat) ==
    Len(split_list([i \in 1..Len(pat) |-> ResolvedPathElement(pat[i], <<>>)]))

\* the number of nodes between node n and the root, n included
Depth(ns, n) == Len(GetAllParentElements(ns, n)) - 1

\* destination p names a folder above destination q
ProperPathPrefix(p, q) ==
    LET a == SplitPath(p)
        b == SplitPath(q)
    IN  /\ Len(a) < Len(b)
        /\ SubSeq(b, 1, Len(a)) = a
        /\ (p # <<>> /\ p[1] = "/") <=> (q # <<>> /\ q[1] = "/")

\* C30: in the tree built by as_tree every item ends in a node at the depth
\* given by the number of units of the pattern, no item ends in a node that
\* has children, and no item's destination is a proper path prefix of
\* another item's destination.
C30_UniformDepth ==
    pc \in {"tree", "counted"} =>
        LET flat == TreeFlatDict(nodes, data)
        IN  \A i \in 1..Len(data) :
               /\ Depth(nodes, data[i][2]) = UnitsOf(pattern)
               /\ nodes[data[i][2]].children = <<>>
               /\ \A j \in 1..Len(data) : ~ProperPathPrefix(flat[i][2], flat[j][2])

\* every chunk has made all its calls or has raised
ThreadsEnded ==
    /\ pc = "threads"
    /\ \A c \in 1..Len(chunks) :
          chunk_pc[c].raised \/ chunk_pc[c].calls = Len(CallsOf(chunks[c]))

\* C26: when the chunks of a mapping that passed validation have run as
\* threads, in whatever order their calls were made, the files and their
\* contents are those that executing the chunks one after the other leaves,
\* and no chunk copies from a path that another chunk copies to.
C26_InterleavingIndependence ==
    ThreadsEnded =>
        /\ FileSystem(copies, 1, InputFiles(sort_mapping)).files
              = ExecuteInOrder(Concat([c \in 1..Len(chunks) |-> CallsOf(chunks[c])]), 1,
                               InputFiles(sort_mapping)).files
        /\ \A a, b \in 1..Len(chunks) :
              a # b => \A i \in 1..Len(chunks[a]) : \A j \in 1..Len(chunks[b]) :
                          chunks[a][i][1] # chunks[b][j][2]

====
